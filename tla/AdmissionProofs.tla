---------------------------- MODULE AdmissionProofs ----------------------------
(***************************************************************************)
(* What validation guarantees, for all specifications users may write.     *)
(***************************************************************************)
EXTENDS Admission, TLAPS

LEMMA NothingMissing ==
    ASSUME NEW fields, NEW block, Missing(fields, block) = {}
    PROVE  block # None /\ fields \subseteq block.filled
BY DEF Missing

(* A port that is not wrong is in range, or has a default. *)
LEMMA Defaults ==
    ASSUME NEW e \in DOMAIN DefaultPort
    PROVE  DefaultPort[e] \in Ports
<1>1. e \in {"mysql", "postgresql", "mongodb", "redis"}
    BY DEF DefaultPort
<1>2. CASE e = "mysql"      BY <1>2 DEF DefaultPort, Ports, MaxPort
<1>3. CASE e = "postgresql" BY <1>3 DEF DefaultPort, Ports, MaxPort
<1>4. CASE e = "mongodb"    BY <1>4 DEF DefaultPort, Ports, MaxPort
<1>5. CASE e = "redis"      BY <1>5 DEF DefaultPort, Ports, MaxPort
<1> QED BY <1>1, <1>2, <1>3, <1>4, <1>5

LEMMA InPorts ==
    ASSUME NEW p \in Int, ~(p < 1), ~(p > MaxPort)
    PROVE  p \in Ports
<1>1. MaxPort \in Int
    BY SMT DEF MaxPort
<1> QED BY <1>1 DEF Ports

LEMMA ValidPort ==
    ASSUME NEW block, block.port \in Int \cup {None}, ~PortWrong(block)
    PROVE  PortOf(block) \in Ports
<1>1. CASE block.port = None
    <2>1. block.engine \in DOMAIN DefaultPort
        BY <1>1 DEF PortWrong
    <2> QED BY <1>1, <2>1, Defaults, Zenon DEF PortOf
<1>2. CASE block.port # None
    <2>1. PortOf(block) = block.port
        BY <1>2 DEF PortOf
    <2>2. block.port \in Int /\ ~(block.port < 1) /\ ~(block.port > MaxPort)
        BY <1>2 DEF PortWrong
    <2>3. block.port \in Ports
        BY <2>2, InPorts
    <2> QED BY <2>1, <2>3
<1> QED BY <1>1, <1>2

(* Each method finds nothing only where nothing is missing. *)
LEMMA ValidDatabase ==
    ASSUME NEW block, validateDatabaseSpec(block) = {}
    PROVE  /\ block # None /\ TargetFields["database"] \subseteq block.filled
           /\ ~PortWrong(block)
<1>1. /\ Missing(TargetFields["database"], block) = {}
      /\ ErrorIf(block # None /\ PortWrong(block), "port") = {}
    BY DEF validateDatabaseSpec
<1>2. ~(block # None /\ PortWrong(block))
    BY <1>1 DEF ErrorIf
<1> QED BY <1>1, <1>2, NothingMissing

LEMMA ValidTarget ==
    ASSUME NEW t, TargetAdmitted(t), TargetErrors(t) = {}, PortTyped(t)
    PROVE  TargetUsable(t)
<1>1. t.type \in {"config", "database", "directory", "nfs"}
    BY DEF TargetAdmitted, TargetTypes
<1>2. CASE t.type = "database"
    <2>1. validateDatabaseSpec(t.block) = {}
        BY <1>2 DEF TargetErrors
    <2>2. t.block # None /\ TargetFields["database"] \subseteq t.block.filled
        BY <2>1, ValidDatabase
    <2>3. ~PortWrong(t.block) /\ t.block.port \in Int \cup {None}
        BY <1>2, <2>1, <2>2, ValidDatabase DEF PortTyped
    <2>4. PortOf(t.block) \in Ports
        BY <2>3, ValidPort
    <2> QED BY <1>2, <2>2, <2>4, Zenon DEF TargetUsable
<1>3. CASE t.type # "database"
    <2>1. Missing(TargetFields[t.type], t.block) = {}
        BY <1>1, <1>3 DEF TargetErrors, validateDirectorySpec
    <2>2. t.block # None /\ TargetFields[t.type] \subseteq t.block.filled
        BY <2>1, NothingMissing
    <2> QED BY <1>3, <2>2 DEF TargetUsable
<1> QED BY <1>2, <1>3

LEMMA ValidSpec ==
    ASSUME NEW s \in Specs, SchemaAdmits(s), validateBackupTask(s) = {}
    PROVE  Usable(s)
<1>1. ASSUME NEW i \in DOMAIN s.targets PROVE TargetUsable(s.targets[i])
    <2>1. TargetAdmitted(s.targets[i])
        BY DEF SchemaAdmits
    <2>2. TargetErrors(s.targets[i]) = {}
        BY DEF validateBackupTask
    <2> QED BY <2>1, <2>2, AdmissionAssumption, ValidTarget
<1>2. /\ s.storage.block # None
      /\ StorageFields[s.storage.type] \subseteq s.storage.block.filled
    <2>1. validateRemoteStorage(s.storage) = {}
        BY DEF validateBackupTask
    <2>2. Missing(StorageFields[s.storage.type], s.storage.block) = {}
        BY <2>1 DEF validateRemoteStorage, SchemaAdmits
    <2> QED BY <2>2, NothingMissing
<1>3. s.encryption.enabled => s.encryption.key
    BY AdmissionAssumption DEF validateBackupTask, validateEncryption, ErrorIf
<1> QED BY <1>1, <1>2, <1>3 DEF Usable

-----------------------------------------------------------------------------
(* What is known of a task, stored or cached: it came through the schema,  *)
(* and through validation if it is marked as checked.                      *)
Admitted(t) ==
    IF t.exists
    THEN /\ t.spec \in Specs /\ SchemaAdmits(t.spec)
         /\ t.checked => validating /\ validateBackupTask(t.spec) = {}
    ELSE t = NoTask

AdmissionInv ==
    /\ task \in TaskType /\ cTask \in TaskType
    /\ Admitted(task) /\ Admitted(cTask)
    /\ taskFresh \in BOOLEAN /\ validating \in BOOLEAN
    /\ writes \in 0 .. MaxWrites

LEMMA NoTaskAdmitted == NoTask \in TaskType /\ Admitted(NoTask)
BY DEF NoTask, TaskType, Admitted

(* An update of the operator sends what its cache holds, but for the       *)
(* finalizer, or it ends the task.                                         *)
LEMMA StoredByOperator ==
    ASSUME AdmissionInv, NEW b \in BOOLEAN, cTask.exists, Update([cTask EXCEPT !.fin = b])
    PROVE  task' \in TaskType /\ Admitted(task') /\ taskFresh' \in BOOLEAN
<1> DEFINE t == [cTask EXCEPT !.fin = b]
<1>1. t \in TaskType /\ Admitted(t)
    BY DEF AdmissionInv, Admitted, TaskType
<1>2. task' = NoTask \/ task' = t
    BY DEF Update, Store
<1>3. taskFresh' \in BOOLEAN
    BY DEF Update, Store, AdmissionInv
<1> QED BY <1>1, <1>2, <1>3, NoTaskAdmitted

LEMMA AdmissionStep == AdmissionInv /\ [Next]_vars => AdmissionInv'
<1> SUFFICES ASSUME AdmissionInv, [Next]_vars PROVE AdmissionInv'
    OBVIOUS
<1>1. CASE CreateTask
    <2>1. PICK s \in Specs :
              /\ SchemaAdmits(s) /\ ValidateCreate(s) = {}
              /\ Store([NoTask EXCEPT !.exists = TRUE, !.spec = s, !.checked = validating])
        BY <1>1 DEF CreateTask
    <2>2. task' = [exists |-> TRUE, spec |-> s, fin |-> FALSE, del |-> FALSE,
                   checked |-> validating]
        BY <2>1 DEF Store, NoTask
    <2>3. task' \in TaskType
        BY <2>2 DEF TaskType, AdmissionInv
    <2>4. Admitted(task')
        BY <2>1, <2>2 DEF Admitted, ValidateCreate
    <2>5. taskFresh' \in BOOLEAN
        BY <2>1 DEF Store, AdmissionInv
    <2>6. writes' \in 0 .. MaxWrites
        BY <1>1, AdmissionAssumption DEF CreateTask, AdmissionInv
    <2> QED BY <1>1, <2>3, <2>4, <2>5, <2>6 DEF CreateTask, AdmissionInv, Admitted
<1>2. CASE EditTask
    <2>1. PICK s \in Specs :
              /\ SchemaAdmits(s) /\ ValidateUpdate(s, task.spec) = {}
              /\ Store([task EXCEPT !.spec = s])
        BY <1>2 DEF EditTask
    <2>2. /\ task' \in TaskType /\ task'.spec = s
          /\ task'.exists = task.exists /\ task'.checked = task.checked
        BY <2>1 DEF Store, AdmissionInv, TaskType
    <2>3. Admitted(task')
        <3>1. task.checked => validating
            BY <1>2 DEF EditTask, AdmissionInv, Admitted
        <3>2. validating => validateBackupTask(s) = {}
            BY <2>1 DEF ValidateUpdate
        <3> QED BY <1>2, <2>1, <2>2, <3>1, <3>2 DEF EditTask, Admitted
    <2>4. taskFresh' \in BOOLEAN
        BY <2>1 DEF Store, AdmissionInv
    <2>5. writes' \in 0 .. MaxWrites
        BY <1>2, AdmissionAssumption DEF EditTask, AdmissionInv
    <2> QED BY <1>2, <2>2, <2>3, <2>4, <2>5 DEF EditTask, AdmissionInv, Admitted
<1>3. CASE DeleteTask
    <2>1. task' \in TaskType /\ Admitted(task')
        BY <1>3, NoTaskAdmitted DEF DeleteTask, Store, AdmissionInv, Admitted, TaskType
    <2>2. taskFresh' \in BOOLEAN
        BY <1>3 DEF DeleteTask, Store, AdmissionInv
    <2> QED BY <1>3, <2>1, <2>2 DEF DeleteTask, AdmissionInv, Admitted
<1>4. CASE AddFinalizer
    BY <1>4, StoredByOperator DEF AddFinalizer, AdmissionInv, Admitted
<1>5. CASE RemoveFinalizer
    BY <1>5, StoredByOperator DEF RemoveFinalizer, AdmissionInv, Admitted
<1>6. CASE SyncTask
    BY <1>6 DEF SyncTask, AdmissionInv, Admitted
<1>7. CASE Register
    BY <1>7 DEF Register, AdmissionInv, Admitted
<1>8. CASE UNCHANGED vars
    BY <1>8 DEF vars, AdmissionInv, Admitted
<1> QED BY <1>1, <1>2, <1>3, <1>4, <1>5, <1>6, <1>7, <1>8 DEF Next

(* Every task, stored or cached, came through the schema, and one marked   *)
(* as checked through validation: no update of the operator and no edit    *)
(* goes round either (EditTask, AddFinalizer, RemoveFinalizer).            *)
THEOREM AdmissionInvariant == Spec => []AdmissionInv
<1>1. Init => AdmissionInv
    <2>1. 0 \in 0 .. MaxWrites
        BY AdmissionAssumption
    <2>2. Init => task \in TaskType /\ cTask \in TaskType /\ Admitted(task) /\ Admitted(cTask)
        BY NoTaskAdmitted DEF Init
    <2> QED BY <2>1, <2>2 DEF Init, AdmissionInv
<1> QED BY <1>1, AdmissionStep, PTL DEF Spec

(* Every state is well-typed: in particular no target is stored whose type *)
(* the switch of validateBackupTask does not know.                         *)
THEOREM AdmissionTypeCorrect == Spec => []TypeOK
<1>1. AdmissionInv => TypeOK
    BY DEF AdmissionInv, TypeOK, Admitted, SchemaAdmits, TargetAdmitted
<1> QED BY <1>1, AdmissionInvariant, PTL

(* A task created under validation is usable for ever: whatever users      *)
(* write later, every target and the storage have a full block of their    *)
(* type, a database a port, and encryption its key.                        *)
THEOREM CheckedUsable == Spec => []CheckedIsUsable
<1>1. AdmissionInv => CheckedIsUsable
    BY ValidSpec DEF AdmissionInv, CheckedIsUsable, Admitted
<1> QED BY <1>1, AdmissionInvariant, PTL

-----------------------------------------------------------------------------

(* A copy under a current resourceVersion is the stored object. *)
CopyCurrent == taskFresh => cTask = task

LEMMA StoreKeepsCopy ==
    ASSUME CopyCurrent, NEW t, Store(t), UNCHANGED cTask
    PROVE  CopyCurrent'
BY Zenon DEF CopyCurrent, Store

LEMMA CopyCurrentInvariant ==
    Spec => []CopyCurrent
<1>1. Init => CopyCurrent
    BY DEF Init, CopyCurrent
<1>2. ASSUME CopyCurrent, [Next]_vars PROVE CopyCurrent'
    <2>1. CASE CreateTask \/ EditTask \/ DeleteTask \/ AddFinalizer \/ RemoveFinalizer
        <3>1. (\E t : Store(t)) /\ UNCHANGED cTask
            BY <2>1, Zenon DEF CreateTask, EditTask, DeleteTask, AddFinalizer, RemoveFinalizer, Update
        <3> QED BY <1>2, <3>1, StoreKeepsCopy
    <2>2. CASE SyncTask \/ Register \/ UNCHANGED vars
        BY <1>2, <2>2 DEF CopyCurrent, SyncTask, Register, vars
    <2> QED BY <1>2, <2>1, <2>2 DEF Next
<1> QED BY <1>1, <1>2, PTL DEF Spec

(* The operator adds and removes its finalizer by writing back the whole   *)
(* object it has cached; no such write undoes an edit a user made since,   *)
(* or takes back a deletion.                                               *)
THEOREM EditsKept ==
    Spec => EditsSurvive
<1>1. ASSUME AdmissionInv, CopyCurrent, [Next]_vars
      PROVE  [task.exists /\ task'.exists /\ writes' = writes =>
                 task'.spec = task.spec /\ (task.del => task'.del)]_vars
    <2> SUFFICES ASSUME task.exists, task'.exists, writes' = writes
                 PROVE  task'.spec = task.spec /\ (task.del => task'.del)
        OBVIOUS
    <2>1. writes \in Int
        BY <1>1, AdmissionAssumption DEF AdmissionInv
    <2>2. CASE CreateTask \/ EditTask
        BY <2>1, <2>2 DEF CreateTask, EditTask
    <2>3. CASE DeleteTask
        <3>1. task' \in {[task EXCEPT !.del = TRUE], NoTask}
            BY <2>3 DEF DeleteTask, Store
        <3> QED BY <1>1, <3>1 DEF AdmissionInv, TaskType, NoTask
    <2>4. CASE AddFinalizer \/ RemoveFinalizer
        <3>1. cTask = task
            BY <1>1, <2>4 DEF AddFinalizer, RemoveFinalizer, Update, CopyCurrent
        <3>2. \E b \in BOOLEAN : task' \in {[task EXCEPT !.fin = b], NoTask}
            BY <2>4, <3>1 DEF AddFinalizer, RemoveFinalizer, Update, Store
        <3> QED BY <1>1, <3>2 DEF AdmissionInv, TaskType, NoTask
    <2>5. CASE SyncTask \/ Register \/ UNCHANGED vars
        BY <2>5 DEF SyncTask, Register, vars
    <2> QED BY <1>1, <2>2, <2>3, <2>4, <2>5 DEF Next
<1> QED BY <1>1, AdmissionInvariant, CopyCurrentInvariant, PTL DEF Spec, EditsSurvive
=============================================================================
