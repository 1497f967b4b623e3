------------------------------- MODULE Admission -------------------------------
(***************************************************************************)
(* Which BackupTasks the API server stores: the schema generated from the  *)
(* markers in api/v1alpha1/backuptask_types.go, the webhook the manager    *)
(* registers, which admits everything, and the validation methods of       *)
(* api/v1alpha1/backuptask_webhook.go, which no code registers yet: they   *)
(* come into force here with a later deployment, when tasks stored without *)
(* them exist.  Users and the operator write through the same admission:   *)
(* the operator's finalizer updates send the whole object of its cache.    *)
(*                                                                         *)
(* A specification keeps what the checks look at.  A block is the set of   *)
(* its required fields that are filled; of a target's blocks the one of    *)
(* its own type is kept, the methods look at no other.  What Default would *)
(* fill in plays no part in any check.                                     *)
(***************************************************************************)
EXTENDS Integers, Sequences

CONSTANTS
    None,           \* a block, a port or a level that is absent
    Specs,          \* the specifications users try to write
    CronSchedules,  \* the schedules of cron's form
    MaxWrites       \* bound: creations and edits by users

PortTyped(t) == t.type = "database" /\ t.block # None => t.block.port \in Int \cup {None}

ASSUME AdmissionAssumption ==
    /\ None \notin Int /\ MaxWrites \in Nat
    /\ \A s \in Specs : \A i \in DOMAIN s.targets : PortTyped(s.targets[i])
    /\ \A s \in Specs : s.encryption \in [enabled : BOOLEAN, key : BOOLEAN]

VARIABLES
    task,         \* the BackupTask on the API server
    cTask,        \* the one in the operator's cache
    taskFresh,    \* is it the stored version?
    validating,   \* are the validation methods in force?
    writes

vars == <<task, cTask, taskFresh, validating, writes>>

NoTask == [exists |-> FALSE, spec |-> None, fin |-> FALSE, del |-> FALSE, checked |-> FALSE]

-----------------------------------------------------------------------------
(* The schema and the validation methods *)

TargetTypes  == {"config", "database", "directory", "nfs"}
StorageTypes == {"s3", "sftp", "nfs", "smb"}
MaxPort      == 65535
Ports        == 1 .. MaxPort
DefaultPort  == [mysql |-> 3306, postgresql |-> 5432, mongodb |-> 27017, redis |-> 6379]

(* The directory has a path in its list, and no path in it is empty. *)
TargetFields ==
    [config |-> {}, database |-> {"host", "authSecretRef"},
     directory |-> {"paths", "path"}, nfs |-> {"server", "path"}]
StorageFields ==
    [s3 |-> {"endpoint", "bucket", "authSecretRef"}, sftp |-> {"host", "path", "authSecretRef"},
     nfs |-> {"server", "path"}, smb |-> {"server", "share", "authSecretRef"}]

(* Required fields must be there, but may be empty; blocks are optional. *)
SchemaAdmits_AnyType(s) ==
    /\ s.schedule \in CronSchedules
    /\ s.targets # <<>>
    /\ \A i \in DOMAIN s.targets : s.targets[i].name # ""
    /\ s.storage.type \in StorageTypes

TargetAdmitted(t) ==
    /\ t.name # "" /\ t.type \in TargetTypes
    /\ t.type = "database" /\ t.block # None => t.block.engine \in DOMAIN DefaultPort

SchemaAdmits(s) ==
    /\ s.schedule \in CronSchedules
    /\ s.targets # <<>>
    /\ \A i \in DOMAIN s.targets : TargetAdmitted(s.targets[i])
    /\ s.storage.type \in StorageTypes

Missing(fields, block) ==
    IF block = None THEN {"block"} ELSE fields \ block.filled

ErrorIf(wrong, field) == IF wrong THEN {field} ELSE {}

(* The default port is set in the object under validation and is lost.     *)
PortWrong(block) ==
    \/ block.port = None /\ block.engine \notin DOMAIN DefaultPort
    \/ block.port # None /\ (block.port < 1 \/ block.port > MaxPort)

validateDatabaseSpec(block) ==
    Missing(TargetFields.database, block) \cup ErrorIf(block # None /\ PortWrong(block), "port")

PortOf(block) == IF block.port = None THEN DefaultPort[block.engine] ELSE block.port

LevelWrong(block) == block.level # None /\ (block.level < 0 \/ block.level > 9)

validateDirectorySpec(block) ==
    Missing(TargetFields.directory, block)
        \cup ErrorIf(block # None /\ LevelWrong(block), "compressionLevel")

(* A type the switch does not know is not checked. *)
TargetErrors(t) ==
    ErrorIf(t.name = "", "name")
        \cup (IF t.type = "database" THEN validateDatabaseSpec(t.block) ELSE {})
        \cup (IF t.type = "directory" THEN validateDirectorySpec(t.block) ELSE {})
        \cup (IF t.type \in {"config", "nfs"}
              THEN Missing(TargetFields[t.type], t.block) ELSE {})

validateRemoteStorage(st) ==
    IF st.type \in StorageTypes THEN Missing(StorageFields[st.type], st.block) ELSE {}

validateEncryption(e) == ErrorIf(e.enabled /\ ~e.key, "keySecretRef")

validateBackupTask_NoStorage(s) ==
    ErrorIf(s.schedule \notin CronSchedules, "schedule")
        \cup ErrorIf(s.targets = <<>>, "targets")
        \cup (UNION {TargetErrors(s.targets[i]) : i \in DOMAIN s.targets})
        \cup validateEncryption(s.encryption)

validateBackupTask(s) ==
    ErrorIf(s.schedule \notin CronSchedules, "schedule")
        \cup ErrorIf(s.targets = <<>>, "targets")
        \cup (UNION {TargetErrors(s.targets[i]) : i \in DOMAIN s.targets})
        \cup validateRemoteStorage(s.storage)
        \cup validateEncryption(s.encryption)

ValidateCreate(s) == IF validating THEN validateBackupTask(s) ELSE {}

(* The old object does not convert to a BackupTask. *)
ValidateUpdate_WrongType(s, old) == IF validating THEN {"object"} ELSE {}

ValidateUpdate(s, old) ==
    IF ~validating THEN {}
    ELSE IF s.schedule # old.schedule THEN {"schedule"}
    ELSE validateBackupTask(s)

-----------------------------------------------------------------------------
(* Users, the operator, a later deployment *)

TaskType ==
    [exists : BOOLEAN, spec : Specs \cup {None}, fin : BOOLEAN, del : BOOLEAN, checked : BOOLEAN]

TypeOK ==
    /\ task \in TaskType /\ cTask \in TaskType
    /\ \A t \in {task, cTask} :
          IF t.exists
          THEN /\ t.spec \in Specs
               /\ \A i \in DOMAIN t.spec.targets : t.spec.targets[i].type \in TargetTypes
          ELSE t = NoTask
    /\ taskFresh \in BOOLEAN /\ validating \in BOOLEAN
    /\ writes \in 0 .. MaxWrites

Init ==
    /\ task = NoTask /\ cTask = NoTask /\ taskFresh = TRUE
    /\ validating = FALSE
    /\ writes = 0

Store(t) == task' = t /\ taskFresh' = (taskFresh /\ t = task)

CreateTask ==
    /\ ~task.exists
    /\ writes < MaxWrites /\ writes' = writes + 1
    /\ \E s \in Specs :
          /\ SchemaAdmits(s) /\ ValidateCreate(s) = {}
          /\ Store([NoTask EXCEPT !.exists = TRUE, !.spec = s, !.checked = validating])
    /\ UNCHANGED <<cTask, validating>>

EditTask ==
    /\ task.exists
    /\ writes < MaxWrites /\ writes' = writes + 1
    /\ \E s \in Specs :
          /\ SchemaAdmits(s) /\ ValidateUpdate(s, task.spec) = {}
          /\ Store([task EXCEPT !.spec = s])
    /\ UNCHANGED <<cTask, validating>>

(* ValidateDelete admits. *)
DeleteTask ==
    /\ task.exists
    /\ Store(IF task.fin THEN [task EXCEPT !.del = TRUE] ELSE NoTask)
    /\ UNCHANGED <<cTask, validating, writes>>

(* The operator's Update of its whole copy, under its resourceVersion. *)
Update_OverStored(t) ==
    /\ task.exists /\ ValidateUpdate(t.spec, task.spec) = {}
    /\ Store(IF t.del /\ ~t.fin THEN NoTask ELSE t)

Update(t) ==
    /\ taskFresh /\ ValidateUpdate(t.spec, task.spec) = {}
    /\ Store(IF t.del /\ ~t.fin THEN NoTask ELSE t)

AddFinalizer ==
    /\ cTask.exists /\ ~cTask.del /\ ~cTask.fin
    /\ Update([cTask EXCEPT !.fin = TRUE])
    /\ UNCHANGED <<cTask, validating, writes>>

RemoveFinalizer ==
    /\ cTask.exists /\ cTask.del /\ cTask.fin
    /\ Update([cTask EXCEPT !.fin = FALSE])
    /\ UNCHANGED <<cTask, validating, writes>>

SyncTask ==
    /\ ~taskFresh
    /\ cTask' = task /\ taskFresh' = TRUE
    /\ UNCHANGED <<task, validating, writes>>

Register ==
    /\ ~validating /\ validating' = TRUE
    /\ UNCHANGED <<task, cTask, taskFresh, writes>>

Next ==
    \/ CreateTask \/ EditTask \/ DeleteTask
    \/ AddFinalizer \/ RemoveFinalizer \/ SyncTask
    \/ Register

Spec == Init /\ [][Next]_vars

(* Failed passes are repeated, the watch delivers; see BackupTaskReconcile. *)
FairSpec ==
    Spec /\ WF_vars(AddFinalizer) /\ WF_vars(RemoveFinalizer) /\ WF_vars(SyncTask)

-----------------------------------------------------------------------------
(* Properties *)

(* SAFETY.  A task created under validation has, through all edits of      *)
(* users and updates of the operator, what the builders and the agent go   *)
(* by: a full block for the type of every target and of the storage, a     *)
(* port that is given or known, and the key when it is to be encrypted.    *)
TargetUsable(t) ==
    /\ t.block # None /\ TargetFields[t.type] \subseteq t.block.filled
    /\ t.type = "database" => PortOf(t.block) \in Ports

Usable(s) ==
    /\ \A i \in DOMAIN s.targets : TargetUsable(s.targets[i])
    /\ s.storage.block # None
    /\ StorageFields[s.storage.type] \subseteq s.storage.block.filled
    /\ s.encryption.enabled => s.encryption.key

CheckedIsUsable ==
    task.exists /\ task.checked => Usable(task.spec)

(* STEPS.  The operator's updates carry a whole object, and never undo an  *)
(* edit of a user or take back a deletion.                                 *)
EditsSurvive ==
    [][task.exists /\ task'.exists /\ writes' = writes =>
          task'.spec = task.spec /\ (task.del => task'.del)]_vars

(* LIVENESS.  ValidateUpdate also judges the update that releases the      *)
(* finalizer.  A deletion comes to its end all the same, unless the stored *)
(* task fails validation: one from before it was in force, which then      *)
(* stays until somebody mends it.                                          *)
DeletionCompletes ==
    task.del ~> ~task.exists \/ validateBackupTask(task.spec) # {}
=============================================================================
