------------------------ MODULE OperatorReplicasProofs ------------------------
(***************************************************************************)
(* Theorems about OperatorReplicas, for any set of operators and every     *)
(* value of the bounds.                                                    *)
(***************************************************************************)
EXTENDS OperatorReplicas, TLAPS

LEMMA AbsentTyped ==
    /\ NoTask \in TaskType /\ NoSpec \in SpecType
    /\ NoCache \in CacheType /\ NoPass \in PassType
BY DEF NoTask, NoSpec, NoCache, NoPass, TaskType, SpecType, CacheType, PassType, Steps

LEMMA FirstStepIsStep ==
    ASSUME NEW t \in TaskType
    PROVE  /\ FirstStep(t) \in {"idle", "deleteCronJob", "addFinalizer", "writeConfigMap"}
           /\ FirstStep(t) # "idle" => Exists(t)
           /\ FirstStep(t) = "deleteCronJob" => t.del
           /\ FirstStep(t) = "idle" => ~Exists(t) \/ (t.del /\ ~t.fin)
BY DEF FirstStep, Exists, TaskType

(* A write makes copies stale and changes nothing else about them. *)
LEMMA PassesAfterTaskTyped ==
    ASSUME pass \in [Operators -> PassType], NEW changed \in BOOLEAN
    PROVE  /\ PassesAfterTask(changed) \in [Operators -> PassType]
           /\ \A o \in Operators :
                 /\ PassesAfterTask(changed)[o].step = pass[o].step
                 /\ PassesAfterTask(changed)[o].spec = pass[o].spec
                 /\ PassesAfterTask(changed)[o].taskFresh => pass[o].taskFresh /\ ~changed
<1>1. ASSUME NEW o \in Operators
      PROVE  /\ [pass[o] EXCEPT !.taskFresh = @ /\ ~changed] \in PassType
             /\ [pass[o] EXCEPT !.taskFresh = @ /\ ~changed].step = pass[o].step
             /\ [pass[o] EXCEPT !.taskFresh = @ /\ ~changed].spec = pass[o].spec
             /\ [pass[o] EXCEPT !.taskFresh = @ /\ ~changed].taskFresh
                    => pass[o].taskFresh /\ ~changed
    BY <1>1 DEF PassType
<1> QED BY <1>1 DEF PassesAfterTask

LEMMA PassesAfterCronJobTyped ==
    ASSUME pass \in [Operators -> PassType], NEW c
    PROVE  /\ PassesAfterCronJob(c) \in [Operators -> PassType]
           /\ \A o \in Operators :
                 /\ PassesAfterCronJob(c)[o].step = pass[o].step
                 /\ PassesAfterCronJob(c)[o].spec = pass[o].spec
                 /\ PassesAfterCronJob(c)[o].taskFresh = pass[o].taskFresh
<1>1. ASSUME NEW o \in Operators, NEW same \in BOOLEAN
      PROVE  /\ [pass[o] EXCEPT !.cronJobFresh = @ /\ same] \in PassType
             /\ [pass[o] EXCEPT !.cronJobFresh = @ /\ same].step = pass[o].step
             /\ [pass[o] EXCEPT !.cronJobFresh = @ /\ same].spec = pass[o].spec
             /\ [pass[o] EXCEPT !.cronJobFresh = @ /\ same].taskFresh = pass[o].taskFresh
    BY <1>1 DEF PassType
<1> QED BY <1>1 DEF PassesAfterCronJob

LEMMA StoreTaskTyped ==
    ASSUME cache \in [Operators -> CacheType], NEW t \in TaskType, NEW changed \in BOOLEAN,
           StoreTask(t, changed)
    PROVE  /\ task' = t /\ cache' \in [Operators -> CacheType]
           /\ \A o \in Operators :
                 /\ cache'[o].task = cache[o].task
                 /\ cache'[o].taskFresh <=> cache[o].taskFresh /\ ~changed
<1>1. ASSUME NEW o \in Operators
      PROVE  /\ [cache[o] EXCEPT !.taskFresh = @ /\ ~changed] \in CacheType
             /\ [cache[o] EXCEPT !.taskFresh = @ /\ ~changed].task = cache[o].task
             /\ [cache[o] EXCEPT !.taskFresh = @ /\ ~changed].taskFresh
                    <=> cache[o].taskFresh /\ ~changed
    BY <1>1 DEF CacheType
<1> QED BY <1>1 DEF StoreTask

LEMMA StoreCronJobTyped ==
    ASSUME cache \in [Operators -> CacheType], NEW c, StoreCronJob(c)
    PROVE  /\ cronJob' = c /\ cache' \in [Operators -> CacheType]
           /\ \A o \in Operators :
                 cache'[o].task = cache[o].task /\ cache'[o].taskFresh = cache[o].taskFresh
<1>1. ASSUME NEW o \in Operators, NEW same \in BOOLEAN
      PROVE  /\ [cache[o] EXCEPT !.cronJobFresh = @ /\ same] \in CacheType
             /\ [cache[o] EXCEPT !.cronJobFresh = @ /\ same].task = cache[o].task
             /\ [cache[o] EXCEPT !.cronJobFresh = @ /\ same].taskFresh = cache[o].taskFresh
    BY <1>1 DEF CacheType
<1> QED BY <1>1 DEF StoreCronJob
-----------------------------------------------------------------------------
(* TYPES *)

(* A pass that is under way belongs to a running operator and has a task. *)
Owned(p) == \A o \in Operators : p[o].step # "idle" => o \in running /\ Exists(p[o].spec)

LEMMA PassTyped ==
    ASSUME NEW q \in [Operators -> PassType], Owned(q), NEW o \in Operators, NEW p \in PassType,
           p.step = "idle" \/ (o \in running /\ Exists(p.spec))
    PROVE  [q EXCEPT ![o] = p] \in [Operators -> PassType] /\ Owned([q EXCEPT ![o] = p])
BY DEF Owned

LEMMA TypeOKInit ==
    Init => TypeOK
<1> SUFFICES ASSUME Init PROVE TypeOK
    OBVIOUS
<1>1. /\ cache \in [Operators -> CacheType] /\ pass \in [Operators -> PassType]
      /\ \A o \in Operators : pass[o].step = "idle"
    BY AbsentTyped DEF Init, NoPass
<1>2. due \in [Operators -> BOOLEAN]
    BY DEF Init
<1> QED BY <1>1, <1>2, AbsentTyped DEF Init, TypeOK

LEMMA TypeOKWorker ==
    ASSUME TypeOK, NEW o \in Operators, Worker(o) PROVE TypeOK'
<1> USE DEF TypeOK
<1>0. o \in running /\ NoPass.step = "idle"
    BY DEF Worker, NoPass
<1>1. CASE StartReconcile(o)
    <2> DEFINE t == cache[o].task
               step == FirstStep(t)
               begun == [NoPass EXCEPT !.step = step, !.spec = [uid |-> t.uid, gen |-> t.gen],
                                       !.taskFresh = cache[o].taskFresh]
    <2>1. t \in TaskType /\ cache[o].taskFresh \in BOOLEAN
        BY DEF CacheType
    <2>2. step \in Steps /\ (step # "idle" => Exists(t))
        BY <2>1, FirstStepIsStep DEF Steps
    <2>3. begun \in PassType /\ begun.step = step /\ begun.spec = [uid |-> t.uid, gen |-> t.gen]
        BY <2>1, <2>2 DEF PassType, NoPass, NoSpec, TaskType, SpecType
    <2>4. pass' = [pass EXCEPT ![o] = IF step = "idle" THEN NoPass ELSE begun]
        BY <1>1 DEF StartReconcile
    <2>5. pass' \in [Operators -> PassType]
        BY <2>3, <2>4, AbsentTyped
    <2>6. Owned(pass')
        BY <1>0, <2>2, <2>3, <2>4 DEF Owned, Exists
    <2>7. due' \in [Operators -> BOOLEAN]
        BY <1>1 DEF StartReconcile
    <2> QED BY <1>1, <2>5, <2>6, <2>7 DEF StartReconcile, objectVars, boundVars, Owned
<1>2. CASE Conflict(o)
    BY <1>0, <1>2, AbsentTyped DEF Conflict, Again, objectVars, boundVars
<1>3. CASE AddFinalizer(o)
    <2>1. [task EXCEPT !.fin = TRUE] \in TaskType
        BY DEF TaskType
    <2>2. task' \in TaskType /\ cache' \in [Operators -> CacheType]
        BY <1>3, <2>1, StoreTaskTyped DEF AddFinalizer
    <2> DEFINE q == PassesAfterTask(TRUE)
               p == [q[o] EXCEPT !.step = "writeConfigMap"]
    <2>3. q \in [Operators -> PassType] /\ Owned(q) /\ q[o].step # "idle"
        BY <1>3, PassesAfterTaskTyped DEF AddFinalizer, Owned
    <2>4. p \in PassType /\ p.spec = q[o].spec
        BY <2>3 DEF PassType, Steps
    <2>5. pass' = [q EXCEPT ![o] = p]
        BY <1>3 DEF AddFinalizer
    <2>6. pass' \in [Operators -> PassType] /\ Owned(pass')
        BY <1>0, <2>3, <2>4, <2>5, PassTyped DEF Owned
    <2> QED BY <1>3, <2>2, <2>6 DEF AddFinalizer, boundVars, Owned
<1>4. CASE WriteConfigMap(o)
    <2> DEFINE p == [pass[o] EXCEPT !.step = "writeCronJob", !.found = cache[o].cronJob,
                         !.cronJobFresh = cache[o].cronJob /\ cache[o].cronJobFresh]
    <2>1. cache[o].cronJob \in BOOLEAN
          /\ (cache[o].cronJob /\ cache[o].cronJobFresh) \in BOOLEAN
        BY DEF CacheType
    <2>2. p \in PassType /\ p.spec = pass[o].spec
        BY <2>1 DEF PassType, Steps
    <2>3. pass' = [pass EXCEPT ![o] = p]
        BY <1>4 DEF WriteConfigMap
    <2>4. pass' \in [Operators -> PassType] /\ Owned(pass')
        BY <1>0, <1>4, <2>2, <2>3, PassTyped DEF WriteConfigMap, Owned
    <2> QED BY <1>4, <2>4 DEF WriteConfigMap, PassType, boundVars, Owned
<1>5. CASE WriteCronJob(o)
    <2>1. pass[o].spec \in SpecType /\ cache[o].taskFresh \in BOOLEAN
        BY DEF PassType, CacheType
    <2>2. cronJob' \in SpecType /\ cache' \in [Operators -> CacheType]
        BY <1>5, <2>1, StoreCronJobTyped DEF WriteCronJob
    <2>3. PassesAfterCronJob(pass[o].spec) \in [Operators -> PassType]
          /\ Owned(PassesAfterCronJob(pass[o].spec))
        BY PassesAfterCronJobTyped DEF Owned
    <2> DEFINE q == PassesAfterCronJob(pass[o].spec)
               p == [q[o] EXCEPT !.step = "writeStatus", !.taskFresh = cache[o].taskFresh,
                                 !.found = FALSE, !.cronJobFresh = FALSE]
    <2>4. pass' \in [Operators -> PassType] /\ Owned(pass')
        <3>1. p \in PassType /\ p.spec = q[o].spec
            <4>1. q[o] \in PassType
                BY <2>3
            <4> HIDE DEF q
            <4> QED BY <4>1, <2>1 DEF PassType, Steps
        <3>2. Exists(q[o].spec)
            BY <1>5, <2>3, PassesAfterCronJobTyped DEF WriteCronJob, Owned
        <3>3. pass' = [q EXCEPT ![o] = p] \/ pass' = [q EXCEPT ![o] = NoPass]
            BY <1>5 DEF WriteCronJob
        <3> HIDE DEF p, q
        <3>4. /\ [q EXCEPT ![o] = p] \in [Operators -> PassType] /\ Owned([q EXCEPT ![o] = p])
              /\ [q EXCEPT ![o] = NoPass] \in [Operators -> PassType]
              /\ Owned([q EXCEPT ![o] = NoPass])
            BY <1>0, <2>3, <3>1, <3>2, AbsentTyped, PassTyped DEF q
        <3> QED BY <3>3, <3>4
    <2>5. due' \in [Operators -> BOOLEAN]
        BY <1>5 DEF WriteCronJob, Again
    <2> QED BY <1>5, <2>2, <2>4, <2>5 DEF WriteCronJob, boundVars, Owned
<1>6. CASE WriteStatus(o)
    <2>1. PICK changed \in BOOLEAN :
              /\ StoreTask(task, changed)
              /\ pass' = [PassesAfterTask(changed) EXCEPT ![o] = NoPass]
        BY <1>6 DEF WriteStatus
    <2>2. task' \in TaskType /\ cache' \in [Operators -> CacheType]
        BY <2>1, StoreTaskTyped
    <2>3. pass' \in [Operators -> PassType] /\ Owned(pass')
        BY <1>0, <2>1, AbsentTyped, PassesAfterTaskTyped DEF Owned
    <2>4. observed' \in Nat /\ due' \in [Operators -> BOOLEAN]
        BY <1>6 DEF WriteStatus, Again, PassType, SpecType
    <2> QED BY <1>6, <2>2, <2>3, <2>4 DEF WriteStatus, boundVars, Owned
<1>7. CASE DeleteCronJob(o)
    <2>1. cronJob' \in SpecType /\ cache' \in [Operators -> CacheType]
        BY <1>7, StoreCronJobTyped, AbsentTyped DEF DeleteCronJob
    <2> DEFINE q == PassesAfterCronJob(NoSpec)
               p == [q[o] EXCEPT !.step = "removeFinalizer"]
    <2>2. q \in [Operators -> PassType] /\ Owned(q) /\ q[o].step # "idle"
        BY <1>7, PassesAfterCronJobTyped DEF DeleteCronJob, Owned
    <2>3. p \in PassType /\ p.spec = q[o].spec
        BY <2>2 DEF PassType, Steps
    <2>4. pass' = [q EXCEPT ![o] = p]
        BY <1>7 DEF DeleteCronJob
    <2>5. pass' \in [Operators -> PassType] /\ Owned(pass')
        BY <1>0, <2>2, <2>3, <2>4, PassTyped DEF Owned
    <2> QED BY <1>7, <2>1, <2>5 DEF DeleteCronJob, boundVars, Owned
<1>8. CASE RemoveFinalizer(o)
    <2>1. WithoutFinalizer(task) \in TaskType
        BY AbsentTyped DEF WithoutFinalizer, TaskType
    <2>2. task' \in TaskType /\ cache' \in [Operators -> CacheType]
        BY <1>8, <2>1, StoreTaskTyped DEF RemoveFinalizer
    <2>3. pass' \in [Operators -> PassType] /\ Owned(pass')
        BY <1>0, <1>8, AbsentTyped, PassesAfterTaskTyped DEF RemoveFinalizer, Owned
    <2> QED BY <1>8, <2>2, <2>3 DEF RemoveFinalizer, ObservedGoes, boundVars, Owned
<1> QED BY <1>1, <1>2, <1>3, <1>4, <1>5, <1>6, <1>7, <1>8 DEF Worker

LEMMA TypeOKProcess ==
    ASSUME TypeOK, NEW o \in Operators, Start(o) \/ Stop(o) \/ SyncTask(o) \/ SyncCronJob(o)
    PROVE  TypeOK'
<1> USE DEF TypeOK
<1>1. CASE Start(o)
    <2>1. cache' \in [Operators -> CacheType] /\ due' \in [Operators -> BOOLEAN]
        BY <1>1 DEF Start, CacheType, Exists
    <2> QED BY <1>1, <2>1 DEF Start, objectVars, boundVars
<1>2. CASE Stop(o)
    <2>1. /\ cache' \in [Operators -> CacheType] /\ due' \in [Operators -> BOOLEAN]
          /\ pass' \in [Operators -> PassType]
        BY <1>2, AbsentTyped DEF Stop
    <2>2. \A p \in Operators : pass'[p].step # "idle" => p \in running' /\ Exists(pass'[p].spec)
        BY <1>2 DEF Stop, NoPass
    <2> QED BY <1>2, <2>1, <2>2 DEF Stop, Disturb, objectVars
<1>3. CASE SyncTask(o)
    <2>1. cache' \in [Operators -> CacheType] /\ due' \in [Operators -> BOOLEAN]
        BY <1>3 DEF SyncTask, CacheType
    <2> QED BY <1>3, <2>1 DEF SyncTask, objectVars, boundVars
<1>4. CASE SyncCronJob(o)
    <2>1. cache' \in [Operators -> CacheType] /\ due' \in [Operators -> BOOLEAN]
        BY <1>4 DEF SyncCronJob, CacheType, Exists
    <2> QED BY <1>4, <2>1 DEF SyncCronJob, objectVars, boundVars
<1> QED BY <1>1, <1>2, <1>3, <1>4

(* What a user can make of a task is a task. *)
LEMMA UserWriteTyped ==
    ASSUME TypeOK, NEW t \in TaskType, UserStoresTask(t), lastUid' \in Nat
    PROVE  TypeOK'
<1> USE DEF TypeOK
<1>1. StoreTask(t, TRUE) /\ pass' = PassesAfterTask(TRUE)
    BY DEF UserStoresTask
<1>2. task' \in TaskType /\ cache' \in [Operators -> CacheType]
    BY <1>1, StoreTaskTyped
<1>3. pass' \in [Operators -> PassType] /\ Owned(pass')
    BY <1>1, PassesAfterTaskTyped DEF Owned
<1>4. disturbances' \in Nat /\ observed' \in Nat
    BY DEF UserStoresTask, ObservedGoes, Disturb
<1> QED BY <1>2, <1>3, <1>4 DEF UserStoresTask, Owned

(* Each user write, with the task it stores. *)
LEMMA UserWrites ==
    ASSUME TypeOK, CreateTask \/ EditTask \/ DeleteTask
    PROVE  \E t \in TaskType : UserStoresTask(t) /\ lastUid' \in Nat
               /\ (t.del => t.fin)
               /\ (t.fin => t.uid # 0)
               /\ (task.fin /\ Exists(task) => t.uid = task.uid /\ t.fin)
<1> USE DEF TypeOK
<1>1. CASE CreateTask
    <2> DEFINE t == [uid |-> lastUid + 1, gen |-> 1, fin |-> FALSE, del |-> FALSE]
    <2>1. t \in TaskType /\ ~t.del /\ ~t.fin
        BY DEF TaskType
    <2>2. UserStoresTask(t) /\ lastUid' \in Nat /\ ~Exists(task)
        BY <1>1 DEF CreateTask
    <2> QED BY <2>1, <2>2
<1>2. CASE EditTask
    BY <1>2 DEF EditTask, TaskType, Exists
<1>3. CASE DeleteTask
    <2>1. Exists(task) /\ lastUid' \in Nat
        BY <1>3 DEF DeleteTask
    <2>2. CASE task.fin
        <3> DEFINE t == [task EXCEPT !.del = TRUE]
        <3>1. t \in TaskType /\ t.uid = task.uid /\ (t.fin <=> task.fin)
            BY DEF TaskType
        <3>2. UserStoresTask(t)
            BY <1>3, <2>2 DEF DeleteTask
        <3> HIDE DEF t
        <3> QED BY <2>1, <2>2, <3>1, <3>2 DEF Exists
    <2>3. CASE ~task.fin
        <3>1. UserStoresTask(NoTask) /\ ~NoTask.fin /\ ~NoTask.del
            BY <1>3, <2>3 DEF DeleteTask, NoTask
        <3> QED BY <2>1, <2>3, <3>1, AbsentTyped
    <2> QED BY <2>2, <2>3
<1> QED BY <1>1, <1>2, <1>3

(* Every variable keeps its type, and a pass under way belongs to a        *)
(* running operator (a stop drops it) and has a task (Reconcile returns    *)
(* when the cache shows none).                                             *)
THEOREM ReplicasTypeCorrect ==
    Spec => []TypeOK
<1>1. ASSUME TypeOK, [Next]_vars PROVE TypeOK'
    <2>1. CASE \E o \in Operators :
                  Worker(o) \/ Start(o) \/ Stop(o) \/ SyncTask(o) \/ SyncCronJob(o)
        BY <1>1, <2>1, TypeOKWorker, TypeOKProcess
    <2>2. CASE CreateTask \/ EditTask \/ DeleteTask
        BY <1>1, <2>2, UserWrites, UserWriteTyped
    <2>3. CASE CollectCronJob
        <3>1. cronJob' \in SpecType /\ cache' \in [Operators -> CacheType]
            BY <1>1, <2>3, AbsentTyped, StoreCronJobTyped DEF TypeOK, CollectCronJob
        <3>2. pass' \in [Operators -> PassType] /\ Owned(pass')
            BY <1>1, <2>3, PassesAfterCronJobTyped DEF TypeOK, CollectCronJob, Owned
        <3> QED BY <1>1, <2>3, <3>1, <3>2 DEF TypeOK, CollectCronJob, boundVars, Owned
    <2>4. CASE UNCHANGED vars
        BY <1>1, <2>4 DEF TypeOK, vars, objectVars, boundVars
    <2> QED BY <1>1, <2>1, <2>2, <2>3, <2>4 DEF Next
<1> QED BY <1>1, TypeOKInit, PTL DEF Spec

-----------------------------------------------------------------------------
(* NOBODY FORGETS, NOTHING IS RELEASED EARLY *)

(* A current cached copy is the stored task; a pass whose copy is current  *)
(* has a task, and if it finalizes, one that is marked.  A marked task has *)
(* the finalizer.                                                          *)
CopiesRight ==
    \A o \in Operators :
        /\ cache[o].taskFresh => cache[o].task = task
        /\ pass[o].step \in {"deleteCronJob", "removeFinalizer"} /\ pass[o].taskFresh
               => task.del
        /\ pass[o].step # "idle" /\ pass[o].taskFresh => Exists(task)

TaskSound == (task.del => task.fin) /\ (task.fin => Exists(task))

ReplicasInv == TaskSound /\ CopiesRight /\ NeverForgotten

(* A write that changes the task leaves no copy current: nothing is known  *)
(* of it any more, and everyone will hear of it.                           *)
LEMMA TaskWritten ==
    ASSUME TypeOK, NEW t \in TaskType, StoreTask(t, TRUE),
           \A o \in Operators : pass'[o].taskFresh => PassesAfterTask(TRUE)[o].taskFresh,
           running' \subseteq Operators
    PROVE  CopiesRight' /\ NeverForgotten'
<1>1. \A o \in Operators : ~cache'[o].taskFresh
    BY StoreTaskTyped DEF TypeOK
<1>2. \A o \in Operators : ~pass'[o].taskFresh
    BY PassesAfterTaskTyped DEF TypeOK
<1>3. NeverForgotten'
    BY <1>1 DEF NeverForgotten
<1>4. CopiesRight'
    BY <1>1, <1>2 DEF CopiesRight
<1> QED BY <1>3, <1>4

(* A step that leaves the task alone, and of the caches and passes of the  *)
(* others at most the CronJob's part.                                      *)
OthersKept(o) ==
    /\ UNCHANGED <<task, running>>
    /\ \A p \in Operators : cache'[p].task = cache[p].task
                            /\ (cache'[p].taskFresh <=> cache[p].taskFresh)
    /\ \A p \in Operators \ {o} : /\ pass'[p].step = pass[p].step
                                  /\ pass'[p].taskFresh <=> pass[p].taskFresh
                                  /\ due'[p] <=> due[p]

LEMMA PassAdvanced ==
    ASSUME ReplicasInv, running \subseteq Operators, NEW o \in Operators, OthersKept(o),
           pass'[o].step \in {"deleteCronJob", "removeFinalizer"} /\ pass'[o].taskFresh => task.del,
           pass'[o].step # "idle" /\ pass'[o].taskFresh => Exists(task),
           pass'[o].step # "idle" \/ due'[o] \/ (Exists(task) => ~cache[o].taskFresh)
    PROVE  ReplicasInv'
<1>1. TaskSound'
    BY DEF ReplicasInv, TaskSound, OthersKept, Exists
<1>2. CopiesRight'
    BY DEF ReplicasInv, CopiesRight, OthersKept, Exists
<1>3. NeverForgotten'
    BY DEF ReplicasInv, NeverForgotten, OthersKept, Exists
<1> QED BY <1>1, <1>2, <1>3 DEF ReplicasInv

LEMMA InvWorker ==
    ASSUME TypeOK, ReplicasInv, NEW o \in Operators, Worker(o) PROVE ReplicasInv'
<1>0. /\ running \subseteq Operators /\ o \in running
      /\ cache[o].task \in TaskType /\ cache[o].taskFresh \in BOOLEAN
      /\ task \in TaskType /\ pass[o].taskFresh \in BOOLEAN
    BY DEF TypeOK, Worker, CacheType, PassType
<1>1. CASE StartReconcile(o)
    <2> DEFINE t == cache[o].task
    <2>1. /\ UNCHANGED <<task, running, cache>>
          /\ \A p \in Operators \ {o} : pass'[p] = pass[p] /\ due'[p] = due[p]
        BY <1>1 DEF StartReconcile, TypeOK, objectVars
    <2>2. pass'[o] = IF FirstStep(t) = "idle" THEN NoPass
                     ELSE [NoPass EXCEPT !.step = FirstStep(t),
                                         !.spec = [uid |-> t.uid, gen |-> t.gen],
                                         !.taskFresh = cache[o].taskFresh]
        BY <1>1 DEF StartReconcile, TypeOK
    <2>3. pass'[o].step = FirstStep(t)
          /\ (pass'[o].taskFresh => cache[o].taskFresh)
        BY <2>2 DEF NoPass
    <2>4. cache[o].taskFresh => t = task
        BY DEF ReplicasInv, CopiesRight
    <2>5. pass'[o].step \in {"deleteCronJob", "removeFinalizer"} /\ pass'[o].taskFresh => task.del
        BY <1>0, <2>3, <2>4, FirstStepIsStep
    <2>6. pass'[o].step # "idle" \/ (Exists(task) => ~cache[o].taskFresh)
        BY <1>0, <2>3, <2>4, FirstStepIsStep DEF ReplicasInv, TaskSound
    <2>7. pass'[o].step # "idle" /\ pass'[o].taskFresh => Exists(task)
        BY <1>0, <2>3, <2>4, FirstStepIsStep
    <2> QED BY <1>0, <2>1, <2>5, <2>6, <2>7, PassAdvanced DEF OthersKept
<1>2. CASE Conflict(o)
    BY <1>0, <1>2, PassAdvanced DEF Conflict, Again, OthersKept, TypeOK, objectVars, NoPass
<1>3. CASE AddFinalizer(o)
    <2>1. /\ StoreTask([task EXCEPT !.fin = TRUE], TRUE) /\ UNCHANGED running
          /\ [task EXCEPT !.fin = TRUE] \in TaskType
        BY <1>0, <1>3 DEF AddFinalizer, TaskType
    <2>2. \A p \in Operators : pass'[p].taskFresh => PassesAfterTask(TRUE)[p].taskFresh
        <3> DEFINE q == PassesAfterTask(TRUE)
        <3>1. q \in [Operators -> PassType]
            BY PassesAfterTaskTyped DEF TypeOK
        <3>2. pass' = [q EXCEPT ![o] = [q[o] EXCEPT !.step = "writeConfigMap"]]
            BY <1>3 DEF AddFinalizer
        <3> HIDE DEF q
        <3>3. [q[o] EXCEPT !.step = "writeConfigMap"].taskFresh = q[o].taskFresh
            BY <3>1 DEF PassType
        <3>4. \A p \in Operators : pass'[p].taskFresh => q[p].taskFresh
            BY <3>1, <3>2, <3>3
        <3> QED BY <3>4 DEF q
    <2>3. CopiesRight' /\ NeverForgotten'
        BY <1>0, <2>1, <2>2, TaskWritten
    <2>4. Exists(task)
        BY <1>3 DEF AddFinalizer, ReplicasInv, CopiesRight
    <2>5. task'.fin /\ task'.uid = task.uid
        BY <1>0, <2>1 DEF StoreTask, TaskType
    <2> QED BY <2>3, <2>4, <2>5 DEF ReplicasInv, TaskSound, Exists
<1>4. CASE WriteConfigMap(o)
    BY <1>0, <1>4, PassAdvanced
    DEF WriteConfigMap, OthersKept, TypeOK, PassType, ReplicasInv, CopiesRight
<1>5. CASE WriteCronJob(o)
    <2> DEFINE q == PassesAfterCronJob(pass[o].spec)
    <2>1. q \in [Operators -> PassType]
          /\ \A p \in Operators : q[p].step = pass[p].step /\ q[p].taskFresh = pass[p].taskFresh
        BY PassesAfterCronJobTyped DEF TypeOK
    <2>2. /\ UNCHANGED <<task, running>>
          /\ \A p \in Operators : cache'[p].task = cache[p].task
                                  /\ cache'[p].taskFresh = cache[p].taskFresh
        BY <1>5, StoreCronJobTyped DEF WriteCronJob, TypeOK
    <2>3. \A p \in Operators \ {o} : pass'[p] = q[p] /\ due'[p] = due[p]
        BY <1>5, <2>1 DEF WriteCronJob, Again, TypeOK
    <2>4. \/ pass'[o] = NoPass /\ due'[o]
          \/ /\ Exists(cache[o].task)
             /\ pass'[o] = [q[o] EXCEPT !.step = "writeStatus", !.taskFresh = cache[o].taskFresh,
                                        !.found = FALSE, !.cronJobFresh = FALSE]
        BY <1>5, <2>1 DEF WriteCronJob, Again, TypeOK
    <2> HIDE DEF q
    <2>5. \/ pass'[o].step = "idle" /\ due'[o]
          \/ /\ pass'[o].step = "writeStatus"
             /\ pass'[o].taskFresh => cache[o].taskFresh /\ Exists(cache[o].task)
        <3>1. CASE pass'[o] = NoPass /\ due'[o]
            BY <3>1 DEF NoPass
        <3>2. CASE /\ Exists(cache[o].task)
                   /\ pass'[o] = [q[o] EXCEPT !.step = "writeStatus",
                                              !.taskFresh = cache[o].taskFresh,
                                              !.found = FALSE, !.cronJobFresh = FALSE]
            <4>1. q[o] \in PassType
                BY <2>1
            <4>2. pass'[o].step = "writeStatus" /\ pass'[o].taskFresh = cache[o].taskFresh
                BY <3>2, <4>1 DEF PassType
            <4> QED BY <3>2, <4>2
        <3> QED BY <2>4, <3>1, <3>2
    <2>6. cache[o].taskFresh => cache[o].task = task
        BY DEF ReplicasInv, CopiesRight
    <2>7. OthersKept(o)
        BY <2>1, <2>2, <2>3 DEF OthersKept
    <2>8. pass'[o].step # "idle" /\ pass'[o].taskFresh => Exists(task)
        BY <2>5, <2>6
    <2> QED BY <1>0, <2>5, <2>7, <2>8, PassAdvanced
<1>6. CASE WriteStatus(o)
    <2>1. PICK changed \in BOOLEAN :
              /\ StoreTask(task, changed)
              /\ pass' = [PassesAfterTask(changed) EXCEPT ![o] = NoPass]
        BY <1>6 DEF WriteStatus
    <2>2. due' = [due EXCEPT ![o] = TRUE] /\ UNCHANGED running
        BY <1>6 DEF WriteStatus, Again
    <2>3. \A p \in Operators : pass'[p].taskFresh => PassesAfterTask(changed)[p].taskFresh
        BY <2>1, PassesAfterTaskTyped DEF TypeOK, NoPass
    <2>4. CASE changed = TRUE
        <3>1. CopiesRight' /\ NeverForgotten'
            BY <1>0, <2>1, <2>2, <2>3, <2>4, TaskWritten
        <3> QED BY <2>1, <3>1 DEF ReplicasInv, TaskSound, StoreTask, Exists
    <2>5. CASE changed = FALSE
        <3>1. \A p \in Operators : /\ cache'[p].task = cache[p].task
                                   /\ cache'[p].taskFresh <=> cache[p].taskFresh
            BY <1>0, <2>1, <2>5, StoreTaskTyped DEF TypeOK
        <3>2. \A p \in Operators : [pass[p] EXCEPT !.taskFresh = @ /\ TRUE] = pass[p]
            BY DEF TypeOK, PassType
        <3>3. PassesAfterTask(FALSE) = pass
            BY <3>2 DEF PassesAfterTask, TypeOK
        <3>4. pass' = [pass EXCEPT ![o] = NoPass]
            BY <2>1, <2>5, <3>3
        <3>5. OthersKept(o)
            BY <2>1, <2>2, <3>1, <3>4 DEF OthersKept, StoreTask, TypeOK
        <3> QED BY <1>0, <2>2, <3>4, <3>5, PassAdvanced DEF TypeOK, NoPass
    <2> QED BY <2>4, <2>5
<1>7. CASE DeleteCronJob(o)
    BY <1>0, <1>7, PassAdvanced, StoreCronJobTyped, PassesAfterCronJobTyped
    DEF DeleteCronJob, OthersKept, TypeOK, PassType, ReplicasInv, CopiesRight
<1>8. CASE RemoveFinalizer(o)
    <2>1. /\ StoreTask(WithoutFinalizer(task), TRUE) /\ UNCHANGED running
          /\ WithoutFinalizer(task) \in TaskType
        BY <1>0, <1>8, AbsentTyped DEF RemoveFinalizer, WithoutFinalizer, TaskType
    <2>2. \A p \in Operators : pass'[p].taskFresh => PassesAfterTask(TRUE)[p].taskFresh
        BY <1>8, PassesAfterTaskTyped DEF RemoveFinalizer, TypeOK, PassType, NoPass
    <2>3. CopiesRight' /\ NeverForgotten'
        BY <1>0, <2>1, <2>2, TaskWritten
    <2> QED BY <1>0, <2>1, <2>3
            DEF ReplicasInv, TaskSound, StoreTask, WithoutFinalizer, NoTask, TaskType, Exists
<1> QED BY <1>1, <1>2, <1>3, <1>4, <1>5, <1>6, <1>7, <1>8 DEF Worker

LEMMA InvProcess ==
    ASSUME TypeOK, ReplicasInv, NEW o \in Operators,
           Start(o) \/ Stop(o) \/ SyncTask(o) \/ SyncCronJob(o)
    PROVE  ReplicasInv'
<1> USE DEF TypeOK
<1>1. CASE Start(o)
    BY <1>1 DEF Start, objectVars, ReplicasInv, TaskSound, CopiesRight, NeverForgotten, Exists
<1>2. CASE Stop(o)
    BY <1>2 DEF Stop, objectVars, ReplicasInv, TaskSound, CopiesRight, NeverForgotten, Exists,
                NoPass, NoCache
<1>3. CASE SyncTask(o)
    BY <1>3 DEF SyncTask, objectVars, ReplicasInv, TaskSound, CopiesRight, NeverForgotten,
                Exists, CacheType
<1>4. CASE SyncCronJob(o)
    BY <1>4 DEF SyncCronJob, objectVars, ReplicasInv, TaskSound, CopiesRight, NeverForgotten,
                Exists, CacheType
<1> QED BY <1>1, <1>2, <1>3, <1>4

LEMMA ReplicasInvariant ==
    Spec => []ReplicasInv
<1>1. Init => ReplicasInv
    BY DEF Init, ReplicasInv, TaskSound, CopiesRight, NeverForgotten, NoTask, NoCache, NoPass,
           Exists
<1>2. ASSUME TypeOK, TypeOK', ReplicasInv, [Next]_vars PROVE ReplicasInv'
    <2>1. CASE \E o \in Operators :
                  Worker(o) \/ Start(o) \/ Stop(o) \/ SyncTask(o) \/ SyncCronJob(o)
        BY <1>2, <2>1, InvWorker, InvProcess
    <2>2. CASE CreateTask \/ EditTask \/ DeleteTask
        <3>1. PICK t \in TaskType : UserStoresTask(t) /\ (t.del => t.fin) /\ (t.fin => t.uid # 0)
            BY <1>2, <2>2, UserWrites
        <3>2. StoreTask(t, TRUE) /\ pass' = PassesAfterTask(TRUE) /\ UNCHANGED running
            BY <3>1 DEF UserStoresTask
        <3>3. CopiesRight' /\ NeverForgotten'
            BY <1>2, <3>2, TaskWritten DEF TypeOK
        <3> QED BY <3>1, <3>2, <3>3 DEF ReplicasInv, TaskSound, StoreTask, Exists
    <2>3. CASE CollectCronJob
        <3>1. /\ UNCHANGED <<task, running, due>>
              /\ \A o \in Operators :
                    /\ cache'[o].task = cache[o].task
                    /\ cache'[o].taskFresh <=> cache[o].taskFresh
                    /\ pass'[o].step = pass[o].step
                    /\ pass'[o].taskFresh <=> pass[o].taskFresh
            BY <1>2, <2>3, StoreCronJobTyped, PassesAfterCronJobTyped DEF CollectCronJob, TypeOK
        <3> QED BY <1>2, <3>1
                DEF TypeOK, ReplicasInv, TaskSound, CopiesRight, NeverForgotten, Exists
    <2>4. CASE UNCHANGED vars
        BY <1>2, <2>4 DEF vars, objectVars, ReplicasInv, TaskSound, CopiesRight, NeverForgotten,
                          Exists
    <2> QED BY <1>2, <2>1, <2>2, <2>3, <2>4 DEF Next
<1> QED BY <1>1, <1>2, ReplicasTypeCorrect, PTL DEF Spec

(* No running operator forgets a task that is there, however many          *)
(* operators run and however their passes meet: whoever keeps it awake     *)
(* (a pass, the key, an event to come) is its own doing, not another's.    *)
THEOREM NobodyForgets ==
    Spec => []NeverForgotten
<1>1. ReplicasInv => NeverForgotten
    BY DEF ReplicasInv
<1> QED BY <1>1, ReplicasInvariant, PTL

(* Whatever an operator still believes of earlier incarnations or          *)
(* versions, a finalizer is released only from a task marked for deletion. *)
THEOREM FinalizerReleasedLate ==
    Spec => FinalizerKept
<1>1. ASSUME TypeOK, ReplicasInv, [Next]_vars
      PROVE  [task.fin /\ ~(task'.uid = task.uid /\ task'.fin) => task.del]_vars
    <2>1. ASSUME NEW o \in Operators, Worker(o), ~RemoveFinalizer(o)
          PROVE  task'.uid = task.uid /\ (task.fin => task'.fin)
        BY <1>1, <2>1 DEF Worker, StartReconcile, Conflict, AddFinalizer, WriteConfigMap,
                          WriteCronJob, WriteStatus, DeleteCronJob, StoreTask, objectVars,
                          TypeOK, TaskType
    <2>2. ASSUME NEW o \in Operators, RemoveFinalizer(o) PROVE task.del
        BY <1>1, <2>2 DEF RemoveFinalizer, ReplicasInv, CopiesRight
    <2>3. ASSUME NEW o \in Operators, Start(o) \/ Stop(o) \/ SyncTask(o) \/ SyncCronJob(o)
          PROVE  task' = task
        BY <2>3 DEF Start, Stop, SyncTask, SyncCronJob, objectVars
    <2>4. ASSUME CreateTask \/ EditTask \/ DeleteTask, task.fin
          PROVE  task'.uid = task.uid /\ task'.fin
        BY <1>1, <2>4, UserWrites DEF UserStoresTask, StoreTask, ReplicasInv, TaskSound
    <2>5. ASSUME CollectCronJob \/ UNCHANGED vars PROVE task' = task
        BY <2>5 DEF CollectCronJob, vars, objectVars
    <2> QED BY <1>1, <2>1, <2>2, <2>3, <2>4, <2>5 DEF Next
<1> QED BY <1>1, ReplicasInvariant, ReplicasTypeCorrect, PTL DEF Spec, FinalizerKept

-----------------------------------------------------------------------------
(* WHAT IS SETTLED STAYS *)

(* A step of an operator that works leaves what the caches show of the     *)
(* task, and of the others' passes at most what is no longer current.      *)
LEMMA WorkerIsAlone ==
    ASSUME TypeOK, NEW o \in Operators, Worker(o)
    PROVE  /\ running' = running
           /\ \A p \in Operators : cache'[p].task = cache[p].task
           /\ \A p \in Operators \ {o} : pass'[p].step = pass[p].step /\ pass'[p].spec = pass[p].spec
<1> USE DEF TypeOK
<1>1. CASE StartReconcile(o) \/ Conflict(o) \/ WriteConfigMap(o)
    BY <1>1 DEF StartReconcile, Conflict, WriteConfigMap, objectVars
<1>2. CASE AddFinalizer(o) \/ RemoveFinalizer(o)
    <2>1. PICK t, p : /\ t \in TaskType /\ StoreTask(t, TRUE) /\ UNCHANGED running
                      /\ pass' = [PassesAfterTask(TRUE) EXCEPT ![o] = p]
        BY <1>2, AbsentTyped DEF AddFinalizer, RemoveFinalizer, WithoutFinalizer, TaskType
    <2> QED BY <2>1, StoreTaskTyped, PassesAfterTaskTyped
<1>3. CASE WriteStatus(o)
    <2>1. PICK changed \in BOOLEAN : /\ StoreTask(task, changed) /\ UNCHANGED running
                                     /\ pass' = [PassesAfterTask(changed) EXCEPT ![o] = NoPass]
        BY <1>3 DEF WriteStatus
    <2> QED BY <2>1, StoreTaskTyped, PassesAfterTaskTyped
<1>4. CASE WriteCronJob(o) \/ DeleteCronJob(o)
    <2>1. PICK c, p : /\ StoreCronJob(c) /\ UNCHANGED running
                      /\ pass' = [PassesAfterCronJob(c) EXCEPT ![o] = p]
        BY <1>4 DEF WriteCronJob, DeleteCronJob
    <2> QED BY <2>1, StoreCronJobTyped, PassesAfterCronJobTyped
<1> QED BY <1>1, <1>2, <1>3, <1>4 DEF Worker

(* Where a step of a pass leads, and with which copy. *)
LEMMA PassGoesOn ==
    ASSUME TypeOK, NEW o \in Operators, Worker(o), pass[o].step # "idle"
    PROVE  \/ pass'[o] = NoPass
           \/ /\ pass'[o].spec = pass[o].spec
              /\ \/ AddFinalizer(o) /\ pass'[o].step = "writeConfigMap"
                 \/ pass[o].step = "writeConfigMap" /\ pass'[o].step = "writeCronJob"
                 \/ pass[o].step = "writeCronJob" /\ pass'[o].step = "writeStatus"
                 \/ pass[o].step = "deleteCronJob" /\ pass'[o].step = "removeFinalizer"
<1> USE DEF TypeOK
<1>1. CASE Conflict(o)
    BY <1>1 DEF Conflict
<1>2. CASE AddFinalizer(o)
    <2> DEFINE q == PassesAfterTask(TRUE)
    <2>1. q \in [Operators -> PassType] /\ q[o].spec = pass[o].spec
        BY PassesAfterTaskTyped
    <2>2. pass' = [q EXCEPT ![o] = [q[o] EXCEPT !.step = "writeConfigMap"]]
        BY <1>2 DEF AddFinalizer
    <2> HIDE DEF q
    <2>3. pass'[o].step = "writeConfigMap" /\ pass'[o].spec = q[o].spec
        BY <2>1, <2>2 DEF PassType
    <2> QED BY <1>2, <2>1, <2>3
<1>3. CASE WriteConfigMap(o)
    BY <1>3 DEF WriteConfigMap, PassType
<1>4. CASE WriteCronJob(o)
    <2> DEFINE q == PassesAfterCronJob(pass[o].spec)
    <2>1. q \in [Operators -> PassType] /\ q[o].spec = pass[o].spec
        BY PassesAfterCronJobTyped
    <2> DEFINE next == [q[o] EXCEPT !.step = "writeStatus", !.taskFresh = cache[o].taskFresh,
                                    !.found = FALSE, !.cronJobFresh = FALSE]
    <2>2. pass' = [q EXCEPT ![o] = NoPass] \/ pass' = [q EXCEPT ![o] = next]
        BY <1>4 DEF WriteCronJob
    <2> HIDE DEF q
    <2>3. next.step = "writeStatus" /\ next.spec = q[o].spec
        BY <2>1 DEF PassType
    <2> HIDE DEF next
    <2>4. pass'[o] = NoPass \/ pass'[o] = next
        BY <2>1, <2>2
    <2> QED BY <1>4, <2>1, <2>3, <2>4 DEF WriteCronJob
<1>5. CASE WriteStatus(o) \/ RemoveFinalizer(o)
    BY <1>5, PassesAfterTaskTyped DEF WriteStatus, RemoveFinalizer
<1>6. CASE DeleteCronJob(o)
    <2> DEFINE q == PassesAfterCronJob(NoSpec)
    <2>1. q \in [Operators -> PassType] /\ q[o].spec = pass[o].spec
        BY PassesAfterCronJobTyped
    <2>2. pass' = [q EXCEPT ![o] = [q[o] EXCEPT !.step = "removeFinalizer"]]
        BY <1>6 DEF DeleteCronJob
    <2> HIDE DEF q
    <2>3. pass'[o].step = "removeFinalizer" /\ pass'[o].spec = q[o].spec
        BY <2>1, <2>2 DEF PassType
    <2> QED BY <1>6, <2>1, <2>3 DEF DeleteCronJob
<1> QED BY <1>1, <1>2, <1>3, <1>4, <1>5, <1>6 DEF Worker, StartReconcile

(* An operator that is up to date with a task that is applied writes what  *)
(* is there.                                                               *)
LEMMA AppliedAgain ==
    ASSUME TypeOK, Settled, Exists(task), NEW o \in Operators, Worker(o), UpToDate(o)
    PROVE  /\ task'.uid = task.uid /\ task'.gen = task.gen /\ task'.fin /\ ~task'.del
           /\ observed' = observed /\ cronJob' = cronJob /\ configMap' = configMap
           /\ pass'[o].step # "idle" => pass'[o].spec = [uid |-> task.uid, gen |-> task.gen]
           /\ pass'[o].step \notin {"deleteCronJob", "removeFinalizer"}
<1> USE DEF TypeOK
<1>1. ~DeleteCronJob(o) /\ ~RemoveFinalizer(o)
    BY DEF UpToDate, DeleteCronJob, RemoveFinalizer
<1>2. /\ task'.uid = task.uid /\ task'.gen = task.gen /\ task'.fin /\ ~task'.del
      /\ observed' = observed /\ cronJob' = cronJob /\ configMap' = configMap
    <2>1. CASE StartReconcile(o) \/ Conflict(o)
        BY <2>1 DEF StartReconcile, Conflict, objectVars, Settled
    <2>2. CASE AddFinalizer(o)
        BY <2>2 DEF AddFinalizer, StoreTask, Settled, TaskType
    <2>3. CASE WriteConfigMap(o)
        BY <2>3 DEF WriteConfigMap, Settled, UpToDate
    <2>4. CASE WriteCronJob(o)
        BY <2>4 DEF WriteCronJob, StoreCronJob, Settled, UpToDate
    <2>5. CASE WriteStatus(o)
        BY <2>5 DEF WriteStatus, StoreTask, Settled, UpToDate
    <2> QED BY <1>1, <2>1, <2>2, <2>3, <2>4, <2>5 DEF Worker
<1>3. CASE pass[o].step = "idle"
    <2> DEFINE t == cache[o].task
    <2>1. StartReconcile(o)
        BY <1>3 DEF Worker, Conflict, AddFinalizer, WriteConfigMap, WriteCronJob, WriteStatus,
                    DeleteCronJob, RemoveFinalizer
    <2>2. t \in TaskType /\ ~t.del
        BY DEF CacheType, UpToDate
    <2>3. \/ pass'[o] = NoPass
          \/ pass'[o] = [NoPass EXCEPT !.step = FirstStep(t),
                                       !.spec = [uid |-> t.uid, gen |-> t.gen],
                                       !.taskFresh = cache[o].taskFresh]
        BY <2>1 DEF StartReconcile
    <2>4. FirstStep(t) \notin {"deleteCronJob", "removeFinalizer"}
        BY <2>2, FirstStepIsStep
    <2>5. \/ pass'[o].step = "idle"
          \/ pass'[o].step = FirstStep(t) /\ pass'[o].spec = [uid |-> t.uid, gen |-> t.gen]
        <3>1. NoPass.step = "idle"
            BY DEF NoPass
        <3>2. CASE pass'[o] = [NoPass EXCEPT !.step = FirstStep(t),
                                             !.spec = [uid |-> t.uid, gen |-> t.gen],
                                             !.taskFresh = cache[o].taskFresh]
            <4>1. pass'[o].step = FirstStep(t)
                BY <3>2 DEF NoPass
            <4>2. pass'[o].spec = [uid |-> t.uid, gen |-> t.gen]
                BY <3>2 DEF NoPass
            <4> QED BY <4>1, <4>2
        <3> QED BY <2>3, <3>1, <3>2
    <2> QED BY <1>2, <2>4, <2>5 DEF UpToDate
<1>4. CASE pass[o].step # "idle"
    BY <1>1, <1>2, <1>4, PassGoesOn DEF UpToDate, NoPass
<1> QED BY <1>2, <1>3, <1>4

(* An operator that knows that the task is gone writes nothing new. *)
LEMMA GoneAgain ==
    ASSUME TypeOK, ReplicasInv, Settled, ~Exists(task), NEW o \in Operators, Worker(o), UpToDate(o)
    PROVE  /\ ~Exists(task') /\ ~Exists(cronJob')
           /\ pass'[o].step \notin {"writeConfigMap", "writeCronJob"}
<1> USE DEF TypeOK
<1>1. ~(pass[o].step # "idle" /\ pass[o].taskFresh)
    BY DEF ReplicasInv, CopiesRight
<1>2. ~AddFinalizer(o) /\ ~WriteStatus(o) /\ ~RemoveFinalizer(o)
    BY <1>1 DEF AddFinalizer, WriteStatus, RemoveFinalizer
<1>3. ~WriteConfigMap(o) /\ ~WriteCronJob(o)
    BY DEF UpToDate, WriteConfigMap, WriteCronJob
<1>4. task' = task /\ cronJob' \in {cronJob, NoSpec}
    BY <1>2, <1>3 DEF Worker, StartReconcile, Conflict, DeleteCronJob, StoreCronJob, objectVars
<1>5. CASE StartReconcile(o)
    <2>1. cache[o].task \in TaskType /\ ~Exists(cache[o].task)
        BY DEF CacheType, UpToDate
    <2>2. FirstStep(cache[o].task) = "idle"
        BY <2>1, FirstStepIsStep
    <2> QED BY <1>4, <1>5, <2>2 DEF StartReconcile, NoPass, NoSpec, Settled, Exists
<1>6. CASE pass[o].step # "idle"
    BY <1>2, <1>4, <1>6, PassGoesOn DEF NoPass, NoSpec, Settled, Exists, UpToDate
<1> QED BY <1>5, <1>6 DEF Worker, Conflict, DeleteCronJob, AddFinalizer, WriteConfigMap,
                          WriteCronJob, WriteStatus, RemoveFinalizer

(* The other operators are as up to date as they were. *)
LEMMA SettledByWorker ==
    ASSUME TypeOK, ReplicasInv, CaughtUp, NEW o \in Operators, Worker(o)
    PROVE  CaughtUp'
<1>0. Settled /\ UpToDate(o) /\ \A p \in running : p \in Operators /\ UpToDate(p)
    BY DEF CaughtUp, Worker, TypeOK
<1>1. /\ running' = running
      /\ \A p \in Operators : cache'[p].task = cache[p].task
      /\ \A p \in Operators \ {o} : pass'[p].step = pass[p].step /\ pass'[p].spec = pass[p].spec
    BY WorkerIsAlone
<1>2. CASE Exists(task)
    <2>1. /\ task'.uid = task.uid /\ task'.gen = task.gen /\ task'.fin /\ ~task'.del
          /\ observed' = observed /\ cronJob' = cronJob /\ configMap' = configMap
          /\ pass'[o].step # "idle" => pass'[o].spec = [uid |-> task.uid, gen |-> task.gen]
          /\ pass'[o].step \notin {"deleteCronJob", "removeFinalizer"}
        BY <1>0, <1>2, AppliedAgain
    <2>2. Settled'
        BY <1>0, <1>2, <2>1 DEF Settled, Exists
    <2>3. ASSUME NEW p \in running PROVE UpToDate(p)'
        BY <1>0, <1>1, <1>2, <2>1, <2>3 DEF UpToDate, Exists
    <2> QED BY <1>1, <2>2, <2>3 DEF CaughtUp
<1>3. CASE ~Exists(task)
    <2>1. /\ ~Exists(task') /\ ~Exists(cronJob')
          /\ pass'[o].step \notin {"writeConfigMap", "writeCronJob"}
        BY <1>0, <1>3, GoneAgain
    <2>2. Settled'
        BY <2>1 DEF Settled, Exists
    <2>3. ASSUME NEW p \in running PROVE UpToDate(p)'
        BY <1>0, <1>1, <1>3, <2>1, <2>3 DEF UpToDate, Exists
    <2> QED BY <1>1, <2>2, <2>3 DEF CaughtUp
<1> QED BY <1>2, <1>3

(* One that starts lists what is there; a later event tells nothing else.  *)
LEMMA SettledByProcess ==
    ASSUME TypeOK, CaughtUp, NEW o \in Operators,
           Start(o) \/ Stop(o) \/ SyncTask(o) \/ SyncCronJob(o)
    PROVE  CaughtUp'
<1>1. UNCHANGED objectVars
    BY DEF Start, Stop, SyncTask, SyncCronJob
<1>2. Settled'
    BY <1>1 DEF objectVars, CaughtUp, Settled, Exists
<1>3. ASSUME NEW p \in running', p # o PROVE UpToDate(p)'
    <2>1. /\ p \in running /\ p \in Operators
          /\ cache'[p].task = cache[p].task /\ pass'[p] = pass[p]
        BY <1>3 DEF TypeOK, Start, Stop, SyncTask, SyncCronJob
    <2> QED BY <1>1, <2>1 DEF CaughtUp, UpToDate, objectVars, Exists
<1>4. ASSUME o \in running' PROVE UpToDate(o)'
    <2>1. CASE Start(o)
        <3>1. cache'[o].task = task /\ pass'[o].step = "idle"
            BY <2>1 DEF Start, TypeOK
        <3> QED BY <1>1, <3>1 DEF CaughtUp, Settled, UpToDate, objectVars, Exists
    <2>2. CASE SyncTask(o)
        <3>1. cache'[o].task = task /\ pass'[o] = pass[o] /\ o \in running
            BY <2>2 DEF SyncTask, TypeOK, CacheType
        <3> QED BY <1>1, <3>1 DEF CaughtUp, Settled, UpToDate, objectVars, Exists
    <2>3. CASE SyncCronJob(o)
        <3>1. cache'[o].task = cache[o].task /\ pass'[o] = pass[o] /\ o \in running
            BY <2>3 DEF SyncCronJob, TypeOK, CacheType
        <3> QED BY <1>1, <3>1 DEF CaughtUp, UpToDate, objectVars, Exists
    <2> QED BY <1>4, <2>1, <2>2, <2>3 DEF Stop
<1> QED BY <1>2, <1>3, <1>4 DEF CaughtUp

(* Any number of operators that are up to date leave a settled task        *)
(* settled; also when one of them stops, or another starts.                *)
THEOREM ReplicasSettledKept ==
    Spec => SettledStays
<1>1. ASSUME TypeOK, ReplicasInv, [Next]_vars
      PROVE  [CaughtUp => CaughtUp' \/ Interference]_vars
    <2>1. SUFFICES ASSUME CaughtUp, ~Interference PROVE CaughtUp'
        OBVIOUS
    <2>2. ~CollectCronJob
        BY <2>1 DEF CollectCronJob, CaughtUp, Settled, Exists
    <2>3. CASE UNCHANGED vars
        BY <2>1, <2>3 DEF vars, objectVars, CaughtUp, Settled, UpToDate, Exists
    <2> QED BY <1>1, <2>1, <2>2, <2>3, SettledByWorker, SettledByProcess DEF Next, Interference
<1> QED BY <1>1, ReplicasTypeCorrect, ReplicasInvariant, PTL DEF Spec, SettledStays
=============================================================================
