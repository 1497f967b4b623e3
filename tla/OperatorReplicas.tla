--------------------------- MODULE OperatorReplicas ---------------------------
(***************************************************************************)
(* Several operator processes and one task name.  cmd/main.go leaves       *)
(* leader election off unless --leader-elect is given, so a rollout has    *)
(* two operators at work; with it, a leader whose lease has run out still  *)
(* is in the middle of a pass when the next one starts.  Both show here as *)
(* a set of running operators, each with caches of its own that catch up   *)
(* in its own time, over the same objects.                                 *)
(*                                                                         *)
(* A pass is Reconcile as in BackupTaskReconcile, with its ConfigMap       *)
(* written in one step (nothing deletes it, and the update is              *)
(* unconditional).  Jobs, records, foreground deletions and single failed  *)
(* calls are left to that module; a stop can come between any two calls.   *)
(***************************************************************************)
EXTENDS Naturals

CONSTANTS
    Operators,   \* the processes of the Deployment
    MaxUid,      \* bound: incarnations of the task
    MaxDisturbances   \* bound: writes by users and stops of operators, together

ASSUME ReplicasAssumption ==
    MaxUid \in Nat /\ MaxDisturbances \in Nat

VARIABLES
    task,        \* the BackupTask, uid 0 when there is none
    observed,    \* its status.observedGeneration
    cronJob,     \* the CronJob: its owner's uid, the generation it was built from
    configMap,   \* the ConfigMap: whose specification it holds
    running,     \* the operators that run
    cache,       \* the informer caches of each operator, and whether they are current
    due,         \* is the key in the operator's queue, or waiting to be added?
    pass,        \* the pass of Reconcile each operator is in
    lastUid,     \* the newest incarnation so far
    disturbances \* writes by users and stops so far

objectVars == <<task, observed, cronJob, configMap>>
boundVars  == <<lastUid, disturbances>>
vars == <<objectVars, running, cache, due, pass, boundVars>>

-----------------------------------------------------------------------------
(* Types *)

TaskType == [uid : Nat, gen : Nat, fin : BOOLEAN, del : BOOLEAN]
SpecType == [uid : Nat, gen : Nat]

NoTask == [uid |-> 0, gen |-> 0, fin |-> FALSE, del |-> FALSE]
NoSpec == [uid |-> 0, gen |-> 0]

Exists(object) == object.uid # 0

Steps == {"idle", "addFinalizer", "writeConfigMap", "writeCronJob", "writeStatus",
          "deleteCronJob", "removeFinalizer"}

(* A copy is fresh while its resourceVersion is the stored one.  Of the    *)
(* cached CronJob nothing is used but that it is there.                    *)
CacheType == [task : TaskType, taskFresh : BOOLEAN, cronJob : BOOLEAN, cronJobFresh : BOOLEAN]

(* spec is the copy of the task the pass began with; found and             *)
(* cronJobFresh are the copy of the CronJob that CreateOrUpdate read.      *)
PassType == [step : Steps, spec : SpecType, taskFresh : BOOLEAN,
             found : BOOLEAN, cronJobFresh : BOOLEAN]

NoCache == [task |-> NoTask, taskFresh |-> FALSE, cronJob |-> FALSE, cronJobFresh |-> FALSE]
NoPass == [step |-> "idle", spec |-> NoSpec, taskFresh |-> FALSE,
           found |-> FALSE, cronJobFresh |-> FALSE]

TypeOK ==
    /\ task \in TaskType /\ observed \in Nat
    /\ cronJob \in SpecType /\ configMap \in SpecType
    /\ running \subseteq Operators
    /\ cache \in [Operators -> CacheType]
    /\ due \in [Operators -> BOOLEAN]
    /\ pass \in [Operators -> PassType]
    /\ \A o \in Operators : pass[o].step # "idle" => o \in running /\ Exists(pass[o].spec)
    /\ lastUid \in Nat /\ disturbances \in Nat

Init ==
    /\ task = NoTask /\ observed = 0 /\ cronJob = NoSpec /\ configMap = NoSpec
    /\ running = {}
    /\ cache = [o \in Operators |-> NoCache]
    /\ due = [o \in Operators |-> FALSE]
    /\ pass = [o \in Operators |-> NoPass]
    /\ lastUid = 0 /\ disturbances = 0

-----------------------------------------------------------------------------
(* The API server.  A write that changes an object leaves no copy of it    *)
(* current, whoever holds it.                                              *)

StoreTask(t, changed) ==
    /\ task' = t
    /\ cache' = [o \in Operators |-> [cache[o] EXCEPT !.taskFresh = @ /\ ~changed]]

StoreCronJob(c) ==
    /\ cronJob' = c
    /\ cache' = [o \in Operators |-> [cache[o] EXCEPT !.cronJobFresh = @ /\ c = cronJob]]

PassesAfterTask(changed) ==
    [o \in Operators |-> [pass[o] EXCEPT !.taskFresh = @ /\ ~changed]]

PassesAfterCronJob(c) ==
    [o \in Operators |-> [pass[o] EXCEPT !.cronJobFresh = @ /\ c = cronJob]]

(* The status goes with the object. *)
ObservedGoes == observed' = IF Exists(task') THEN observed ELSE 0

WithoutFinalizer(t) == IF t.del THEN NoTask ELSE [t EXCEPT !.fin = FALSE]

Disturb ==
    /\ disturbances < MaxDisturbances
    /\ disturbances' = disturbances + 1

-----------------------------------------------------------------------------
(* Reconcile, in operator o *)

FirstStep_IgnoresNotFound(t) ==
    CASE t.del /\ ~t.fin -> "idle"
      [] t.del /\ t.fin  -> "deleteCronJob"
      [] ~t.del /\ ~t.fin -> "addFinalizer"
      [] ~t.del /\ t.fin  -> "writeConfigMap"

FirstStep(t) ==
    CASE ~Exists(t) \/ (t.del /\ ~t.fin) -> "idle"
      [] Exists(t) /\ t.del /\ t.fin     -> "deleteCronJob"
      [] Exists(t) /\ ~t.del /\ ~t.fin   -> "addFinalizer"
      [] Exists(t) /\ ~t.del /\ t.fin    -> "writeConfigMap"

(* Every way out of a pass on a task that is there leaves the key behind:  *)
(* an error by the back-off, a success by its RequeueAfter.                *)
Again_OnlyErrors(o, failed) ==
    due' = [due EXCEPT ![o] = @ \/ failed]

Again(o, failed) ==
    due' = [due EXCEPT ![o] = TRUE]

StartReconcile(o) ==
    /\ pass[o].step = "idle" /\ due[o]
    /\ due' = [due EXCEPT ![o] = FALSE]
    /\ LET t    == cache[o].task
           step == FirstStep(t)
       IN  pass' = [pass EXCEPT ![o] =
               IF step = "idle" THEN NoPass
               ELSE [NoPass EXCEPT !.step = step, !.spec = [uid |-> t.uid, gen |-> t.gen],
                                   !.taskFresh = cache[o].taskFresh]]
    /\ UNCHANGED <<objectVars, running, cache, boundVars>>

(* An update under the resourceVersion of a copy that is no longer current *)
(* is refused.                                                             *)
Conflict(o) ==
    /\ \/ pass[o].step \in {"addFinalizer", "writeStatus", "removeFinalizer"} /\ ~pass[o].taskFresh
       \/ pass[o].step = "writeCronJob"
          /\ IF pass[o].found THEN ~pass[o].cronJobFresh ELSE Exists(cronJob)
    /\ Again(o, TRUE)
    /\ pass' = [pass EXCEPT ![o] = NoPass]
    /\ UNCHANGED <<objectVars, running, cache, boundVars>>

AddFinalizer(o) ==
    /\ pass[o].step = "addFinalizer" /\ pass[o].taskFresh
    /\ StoreTask([task EXCEPT !.fin = TRUE], TRUE)
    /\ pass' = [PassesAfterTask(TRUE) EXCEPT ![o] = [@ EXCEPT !.step = "writeConfigMap"]]
    /\ UNCHANGED <<observed, cronJob, configMap, running, due, boundVars>>

(* createTargetConfigMap, Create and on AlreadyExists Update; then the     *)
(* CronJob is read from the cache.                                         *)
WriteConfigMap(o) ==
    /\ pass[o].step = "writeConfigMap"
    /\ configMap' = pass[o].spec
    /\ pass' = [pass EXCEPT ![o] =
           [@ EXCEPT !.step = "writeCronJob", !.found = cache[o].cronJob,
                     !.cronJobFresh = cache[o].cronJob /\ cache[o].cronJobFresh]]
    /\ UNCHANGED <<task, observed, cronJob, running, cache, due, boundVars>>

(* SetControllerReference compares owners by kind and name: the CronJob of *)
(* another incarnation is taken over.  Then the task is read again from    *)
(* the cache, where it may be gone, or another.                            *)
WriteCronJob(o) ==
    /\ pass[o].step = "writeCronJob"
    /\ IF pass[o].found THEN pass[o].cronJobFresh ELSE ~Exists(cronJob)
    /\ StoreCronJob(pass[o].spec)
    /\ LET others == PassesAfterCronJob(pass[o].spec)
       IN  IF Exists(cache[o].task)
           THEN /\ pass' = [others EXCEPT ![o] =
                       [@ EXCEPT !.step = "writeStatus", !.taskFresh = cache[o].taskFresh,
                                 !.found = FALSE, !.cronJobFresh = FALSE]]
                /\ UNCHANGED due
           ELSE pass' = [others EXCEPT ![o] = NoPass] /\ Again(o, TRUE)
    /\ UNCHANGED <<task, observed, configMap, running, boundVars>>

(* The conditions carry the present second: the object changes, or not if  *)
(* the last write was in the same second.                                  *)
WriteStatus(o) ==
    /\ pass[o].step = "writeStatus" /\ pass[o].taskFresh
    /\ \E touched \in BOOLEAN :
          LET changed == touched \/ observed # pass[o].spec.gen
          IN  /\ StoreTask(task, changed) /\ observed' = pass[o].spec.gen
              /\ pass' = [PassesAfterTask(changed) EXCEPT ![o] = NoPass]
    /\ Again(o, FALSE)
    /\ UNCHANGED <<cronJob, configMap, running, boundVars>>

(* finalizeBackupTask deletes by name, whatever the copy at hand. *)
DeleteCronJob(o) ==
    /\ pass[o].step = "deleteCronJob"
    /\ StoreCronJob(NoSpec)
    /\ pass' = [PassesAfterCronJob(NoSpec) EXCEPT ![o] = [@ EXCEPT !.step = "removeFinalizer"]]
    /\ UNCHANGED <<task, observed, configMap, running, due, boundVars>>

RemoveFinalizer_Patch(o) ==
    /\ pass[o].step = "removeFinalizer" /\ Exists(task)
    /\ StoreTask(WithoutFinalizer(task), TRUE) /\ ObservedGoes
    /\ pass' = [PassesAfterTask(TRUE) EXCEPT ![o] = NoPass]
    /\ UNCHANGED <<cronJob, configMap, running, due, boundVars>>

RemoveFinalizer(o) ==
    /\ pass[o].step = "removeFinalizer" /\ pass[o].taskFresh
    /\ StoreTask(WithoutFinalizer(task), TRUE) /\ ObservedGoes
    /\ pass' = [PassesAfterTask(TRUE) EXCEPT ![o] = NoPass]
    /\ UNCHANGED <<cronJob, configMap, running, due, boundVars>>

Worker(o) ==
    /\ o \in running
    /\ \/ StartReconcile(o) \/ Conflict(o)
       \/ AddFinalizer(o) \/ WriteConfigMap(o) \/ WriteCronJob(o) \/ WriteStatus(o)
       \/ DeleteCronJob(o) \/ RemoveFinalizer(o)

-----------------------------------------------------------------------------
(* The processes *)

(* An operator starts, or becomes the leader: its informers list, and each *)
(* object listed is an event.                                              *)
Start(o) ==
    /\ o \notin running
    /\ running' = running \cup {o}
    /\ cache' = [cache EXCEPT ![o] = [task |-> task, taskFresh |-> TRUE,
                                      cronJob |-> Exists(cronJob), cronJobFresh |-> TRUE]]
    /\ due' = [due EXCEPT ![o] = Exists(task) \/ Exists(cronJob)]
    /\ UNCHANGED <<objectVars, pass, boundVars>>

(* An operator stops, wherever its pass is: the end of a rollout, a crash, *)
(* or a lost lease, after which main exits.                                *)
Stop(o) ==
    /\ o \in running
    /\ Disturb
    /\ running' = running \ {o}
    /\ cache' = [cache EXCEPT ![o] = NoCache]
    /\ due' = [due EXCEPT ![o] = FALSE]
    /\ pass' = [pass EXCEPT ![o] = NoPass]
    /\ UNCHANGED <<objectVars, lastUid>>

SyncTask(o) ==
    /\ o \in running /\ ~cache[o].taskFresh
    /\ cache' = [cache EXCEPT ![o].task = task, ![o].taskFresh = TRUE]
    /\ due' = [due EXCEPT ![o] = TRUE]
    /\ UNCHANGED <<objectVars, running, pass, boundVars>>

SyncCronJob(o) ==
    /\ o \in running /\ ~cache[o].cronJobFresh
    /\ cache' = [cache EXCEPT ![o].cronJob = Exists(cronJob), ![o].cronJobFresh = TRUE]
    /\ due' = [due EXCEPT ![o] = @ \/ Exists(cronJob) \/ cache[o].cronJob]
    /\ UNCHANGED <<objectVars, running, pass, boundVars>>

-----------------------------------------------------------------------------
(* Users, and the garbage collector *)

UserStoresTask(t) ==
    /\ Disturb
    /\ StoreTask(t, TRUE) /\ ObservedGoes
    /\ pass' = PassesAfterTask(TRUE)
    /\ UNCHANGED <<cronJob, configMap, running, due>>

CreateTask ==
    /\ ~Exists(task) /\ lastUid < MaxUid
    /\ lastUid' = lastUid + 1
    /\ UserStoresTask([uid |-> lastUid + 1, gen |-> 1, fin |-> FALSE, del |-> FALSE])

EditTask ==
    /\ Exists(task) /\ ~task.del
    /\ UserStoresTask([task EXCEPT !.gen = @ + 1])
    /\ UNCHANGED lastUid

DeleteTask ==
    /\ Exists(task) /\ ~task.del
    /\ UserStoresTask(IF task.fin THEN [task EXCEPT !.del = TRUE] ELSE NoTask)
    /\ UNCHANGED lastUid

(* A CronJob whose owner, by uid, is gone is collected. *)
CollectCronJob ==
    /\ Exists(cronJob) /\ cronJob.uid # task.uid
    /\ StoreCronJob(NoSpec)
    /\ pass' = PassesAfterCronJob(NoSpec)
    /\ UNCHANGED <<task, observed, configMap, running, due, boundVars>>

-----------------------------------------------------------------------------

Next ==
    \/ \E o \in Operators :
          Worker(o) \/ Start(o) \/ Stop(o) \/ SyncTask(o) \/ SyncCronJob(o)
    \/ CreateTask \/ EditTask \/ DeleteTask \/ CollectCronJob

Spec == Init /\ [][Next]_vars

(* A running operator works and its watches deliver; the Deployment does   *)
(* not leave the cluster without an operator; garbage is collected.        *)
Fairness ==
    /\ \A o \in Operators :
          WF_vars(Worker(o)) /\ WF_vars(SyncTask(o)) /\ WF_vars(SyncCronJob(o))
    /\ WF_vars(running = {} /\ \E o \in Operators : Start(o))
    /\ WF_vars(CollectCronJob)

FairSpec == Spec /\ Fairness

-----------------------------------------------------------------------------
(* Properties *)

(* SAFETY.  No running operator forgets a task that is there: it is in a   *)
(* pass, has the key, or has an event still to come.  However passes of    *)
(* several operators refuse, overtake and undo one another, each of them   *)
(* looks again; nobody relies on somebody else having done the work.       *)
NeverForgotten ==
    Exists(task) => \A o \in running :
        due[o] \/ pass[o].step # "idle" \/ ~cache[o].taskFresh

(* STEPS.  A task loses the finalizer only once it is marked for deletion: *)
(* an operator that still works on an earlier incarnation, or on a version *)
(* from before another operator's write, releases nothing.                 *)
FinalizerKept ==
    [][task.fin /\ ~(task'.uid = task.uid /\ task'.fin) => task.del]_vars

(* LIVENESS.  Two operators can overwrite each other's ConfigMap and       *)
(* CronJob with older specifications, finalize an incarnation long gone    *)
(* against a live one's CronJob, and create a CronJob for a task that is   *)
(* gone.  None of it lasts: after the last write by a user the task is     *)
(* fully applied by whoever runs, or gone with its CronJob.                *)
Settled ==
    IF Exists(task)
    THEN LET spec == [uid |-> task.uid, gen |-> task.gen]
         IN  /\ ~task.del /\ task.fin /\ observed = task.gen
             /\ cronJob = spec /\ configMap = spec
    ELSE ~Exists(cronJob)

Converges == <>[]Settled

(* STEPS.  Nor does it come back.  Once every running operator has left    *)
(* the earlier versions behind, in its cache and in its pass, what is      *)
(* settled stays so: operators that are up to date do not undo each        *)
(* other's work, however their passes meet, one starts or one stops.       *)
UpToDate(o) ==
    LET seen == cache[o].task
    IN  IF Exists(task)
        THEN /\ seen.uid = task.uid /\ seen.gen = task.gen /\ ~seen.del
             /\ pass[o].step # "idle" => pass[o].spec = [uid |-> task.uid, gen |-> task.gen]
             /\ pass[o].step \notin {"deleteCronJob", "removeFinalizer"}
        ELSE /\ ~Exists(seen)
             /\ pass[o].step \notin {"writeConfigMap", "writeCronJob"}

CaughtUp == Settled /\ \A o \in running : UpToDate(o)

Interference == CreateTask \/ EditTask \/ DeleteTask

SettledStays ==
    [][CaughtUp => CaughtUp' \/ Interference]_vars
=============================================================================
