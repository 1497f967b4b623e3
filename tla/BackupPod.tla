------------------------------- MODULE BackupPod -------------------------------
(***************************************************************************)
(* What a specification becomes: the ConfigMap and the pod of the CronJob  *)
(* that createTargetConfigMap, buildBackupPodSpec and the builders under   *)
(* it make of a BackupTask, how the two follow edits through passes that   *)
(* may read an old copy and write a pod the API server refuses, and which  *)
(* pod the Jobs run.  The manager runs the controller of cmd/main.go or    *)
(* the older one of package controllers, whose pod is OlderPod's.          *)
(* Deletion, lost calls and the status are BackupTaskReconcile.            *)
(*                                                                         *)
(* A target is its name, its type, its database block and the paths of its *)
(* directory block, each with the claim it comes from.  Of a podTemplate   *)
(* the restart policy and the volumes its init containers mount are kept.  *)
(* Left out are fields no property tells apart: pull policy, resources,    *)
(* affinity, service account, sub-paths.                                   *)
(***************************************************************************)
EXTENDS Naturals, Sequences, FiniteSets, SequencesExt

CONSTANTS
    None,           \* an optional field that is absent, or an object that is
    Controllers,    \* the controllers the manager may run: "internal", "older"
    Specs,          \* the specifications the users write
    Prefix,         \* "DB_<NAME>_" of each target name: upper case, "-" read as "_"
    NoLabel,        \* claims whose "pvc-<claim>" has a dot, or more than 63 characters
    MaxEdits        \* bound: edits of the specification

ASSUME PodAssumption ==
    /\ MaxEdits \in Nat
    /\ \A s \in Specs : \A t \in DOMAIN s.targets : DOMAIN s.targets[t].paths \subseteq Nat

(* A volume is named by its source: three fixed ones, the NFS storage, and *)
(* one for each claim.                                                     *)
BackupData == "backup-data"
Temp       == "temp"
Config     == "backup-config"
NFSStorage == "nfs-storage"

TmpPath == "/tmp"

(* The container that backs up. *)
Backup == "backup"

VARIABLES
    controller,   \* the one the manager runs
    spec,         \* the specification on the API server
    cSpec,        \* the specification in the operator's cache
    configMap,    \* the targets and the storage in the ConfigMap
    cronJob,      \* the pod template of the CronJob
    job,          \* the pod of the Job in progress
    pc, wSpec,    \* the call Reconcile makes next; backupTask.Spec
    edits

vars == <<controller, spec, cSpec, configMap, cronJob, job, pc, wSpec, edits>>

Older == INSTANCE OlderPod

-----------------------------------------------------------------------------
(* The builders *)

(* The lists of a pod are functions from what an entry is there for to the *)
(* entry: nothing tells their order apart, but an entry may repeat another *)
(* one.  The paths of the directory targets that come from a claim are     *)
(* such reasons: path at[2] of target at[1].                               *)
PathAt(s, at) == s.targets[at[1]].paths[at[2]]

ClaimPaths(s) ==
    {at \in UNION {{t} \X DOMAIN s.targets[t].paths : t \in DOMAIN s.targets} :
        PathAt(s, at).pvc # None}

UsesNFS(s) == s.storage.type = "nfs" /\ "nfs" \in s.storage.blocks

OwnVolumes == {BackupData, Temp, Config}

StorageVolumes(s) == IF UsesNFS(s) THEN {NFSStorage} ELSE {}

(* Volumes of claims are called "pvc-<claim>"; the others are not, and     *)
(* have names that fit.                                                    *)
FixedVolumes == OwnVolumes \cup {NFSStorage} \cup Older!FixedVolumes

ASSUME ClaimAssumption ==
    /\ \A s \in Specs : \A at \in ClaimPaths(s) : PathAt(s, at).pvc \notin FixedVolumes
    /\ FixedVolumes \cap NoLabel = {}

buildVolumes(s) ==
    [e \in {<<v>> : v \in OwnVolumes \cup StorageVolumes(s)} \cup ClaimPaths(s) |->
        IF e \in ClaimPaths(s) THEN PathAt(s, e).pvc ELSE e[1]]

MountPath(v) ==
    CASE v = BackupData -> "/backup/data"
      [] v = Temp       -> TmpPath
      [] v = Config     -> "/etc/backup/config"
      [] v = NFSStorage -> "/mnt/nfs-backup"

Mounts(s, own) ==
    [e \in {<<v>> : v \in own} \cup ClaimPaths(s) |->
        IF e \in ClaimPaths(s)
        THEN [volume |-> PathAt(s, e).pvc, path |-> PathAt(s, e).path]
        ELSE [volume |-> e[1], path |-> MountPath(e[1])]]

buildVolumeMounts_AnyNFS(s) ==
    Mounts(s, OwnVolumes \cup (IF "nfs" \in s.storage.blocks THEN {NFSStorage} ELSE {}))

buildVolumeMounts(s) == Mounts(s, OwnVolumes \cup StorageVolumes(s))

(* The limits told to the agent.  Of keepLast a zero counts as unset. *)
KeepLast == {"hours", "days", "weeks", "months"}

retentionPolicyToEnv(r) ==
    IF r = None THEN {}
    ELSE {setting \in DOMAIN r : r[setting] # (IF setting \in KeepLast THEN 0 ELSE None)}

(* The encryption key, enabled or not, and the Secrets of the databases,   *)
(* each under its prefix; two names that differ in case, or in "-" and     *)
(* "_", share one.                                                         *)
buildEnvFrom(s) ==
    LET databases == SelectSeq(s.targets, LAMBDA t :
                         t.type = "database" /\ t.database # None /\ t.database.secret # None)
    IN  (IF s.encryption # None /\ s.encryption.key # None
         THEN <<[prefix |-> "ENCRYPTION_", secret |-> s.encryption.key]>> ELSE <<>>)
            \o [i \in DOMAIN databases |->
                   [prefix |-> Prefix[databases[i].name], secret |-> databases[i].database.secret]]

getBackupImage(s) == IF s.image # "" THEN s.image ELSE "backup-agent:latest"

(* It looks at the image, not at the command: an empty command with an     *)
(* image stays empty.                                                      *)
getBackupCmd(s) == IF s.image # "" THEN s.cmd ELSE "/backup/scripts/backup.sh"

RestartPolicy_Copied(s) ==
    IF s.template = None THEN "OnFailure" ELSE s.template.restartPolicy

RestartPolicy(s) ==
    IF s.template = None \/ s.template.restartPolicy = ""
    THEN "OnFailure" ELSE s.template.restartPolicy

InitMounts(s) == IF s.template = None THEN {} ELSE s.template.initMounts

(* A template keeps its init containers and loses its volumes. *)
InternalPod(s) ==
    [image |-> getBackupImage(s), command |-> getBackupCmd(s),
     env |-> retentionPolicyToEnv(s.retention), envFrom |-> buildEnvFrom(s),
     containers |-> [e \in {<<Backup>>} |-> Backup],
     mounts |-> buildVolumeMounts(s), volumes |-> buildVolumes(s),
     restartPolicy |-> RestartPolicy(s), initMounts |-> InitMounts(s)]

PodOf(s) == IF controller = "internal" THEN InternalPod(s) ELSE Older!PodOf(s)

ConfigMapOf(s) == [targets |-> s.targets, storage |-> s.storage]

(* The API server validates the pod of a CronJob: the names of volumes and *)
(* containers and the mount paths are distinct, the names are DNS labels,  *)
(* every mount names a volume, a Job's pod is not restarted for ever.      *)
Backed(pod) == \A m \in Range(pod.mounts) : m.volume \in Range(pod.volumes)

ServerAccepts(pod) ==
    /\ IsInjective(pod.volumes)
    /\ Range(pod.volumes) \cap NoLabel = {}
    /\ IsInjective(pod.containers)
    /\ IsInjective([e \in DOMAIN pod.mounts |-> pod.mounts[e].path])
    /\ Backed(pod)
    /\ pod.initMounts \subseteq Range(pod.volumes)
    /\ pod.restartPolicy \in {"OnFailure", "Never"}

Builds(s) == controller = "internal" \/ ~Older!Panics(s)

(* The builders return a pod, and it is valid. *)
Writable(s) == Builds(s) /\ ServerAccepts(PodOf(s))

-----------------------------------------------------------------------------
(* Passes, Jobs and edits *)

TypeOK ==
    /\ controller \in Controllers
    /\ spec \in Specs /\ cSpec \in Specs
    /\ configMap # None => \E s \in Specs : configMap = ConfigMapOf(s)
    /\ \A pod \in {cronJob, job} \ {None} : \E s \in Specs : pod = PodOf(s)
    /\ pc \in {"idle", "writeConfigMap", "writeCronJob"}
    /\ wSpec \in Specs \cup {None}
    /\ edits \in 0 .. MaxEdits

Init ==
    /\ controller \in Controllers
    /\ spec \in Specs /\ cSpec = spec
    /\ configMap = None /\ cronJob = None /\ job = None
    /\ pc = "idle" /\ wSpec = None
    /\ edits = 0

(* A live task is always due again, see BackupTaskReconcile.  The older    *)
(* controller has no ConfigMap.                                            *)
StartReconcile ==
    /\ pc = "idle"
    /\ pc' = IF controller = "internal" THEN "writeConfigMap" ELSE "writeCronJob"
    /\ wSpec' = cSpec
    /\ UNCHANGED <<controller, spec, cSpec, configMap, cronJob, job, edits>>

(* Create, or Update after AlreadyExists. *)
WriteConfigMap_TargetsOnly ==
    /\ pc = "writeConfigMap"
    /\ configMap' = IF configMap = None THEN ConfigMapOf(wSpec)
                    ELSE [configMap EXCEPT !.targets = wSpec.targets]
    /\ pc' = "writeCronJob"
    /\ UNCHANGED <<controller, spec, cSpec, cronJob, job, wSpec, edits>>

WriteConfigMap_CreateOnly ==
    /\ pc = "writeConfigMap"
    /\ configMap' = IF configMap = None THEN ConfigMapOf(wSpec) ELSE configMap
    /\ pc' = "writeCronJob"
    /\ UNCHANGED <<controller, spec, cSpec, cronJob, job, wSpec, edits>>

WriteConfigMap ==
    /\ pc = "writeConfigMap"
    /\ configMap' = ConfigMapOf(wSpec)
    /\ pc' = "writeCronJob"
    /\ UNCHANGED <<controller, spec, cSpec, cronJob, job, wSpec, edits>>

(* A builder that panics, or a pod that is refused, ends the pass with an  *)
(* error and leaves the CronJob, if there is one, as it is.                *)
WriteCronJob_CreateOnly ==
    /\ pc = "writeCronJob"
    /\ cronJob' = IF cronJob = None /\ Writable(wSpec) THEN PodOf(wSpec) ELSE cronJob
    /\ pc' = "idle" /\ wSpec' = None
    /\ UNCHANGED <<controller, spec, cSpec, configMap, job, edits>>

WriteCronJob ==
    /\ pc = "writeCronJob"
    /\ cronJob' = IF Writable(wSpec) THEN PodOf(wSpec) ELSE cronJob
    /\ pc' = "idle" /\ wSpec' = None
    /\ UNCHANGED <<controller, spec, cSpec, configMap, job, edits>>

(* The next scheduled time, if no Job is in progress: ForbidConcurrent. *)
StartJob ==
    /\ cronJob # None /\ job = None
    /\ job' = cronJob
    /\ UNCHANGED <<controller, spec, cSpec, configMap, cronJob, pc, wSpec, edits>>

(* A Job is over when every container of its pod has ended.  A sidecar     *)
(* runs "sleep infinity".                                                  *)
EndJob ==
    /\ job # None /\ Range(job.containers) = {Backup}
    /\ job' = None
    /\ UNCHANGED <<controller, spec, cSpec, configMap, cronJob, pc, wSpec, edits>>

SyncTask ==
    /\ cSpec # spec /\ cSpec' = spec
    /\ UNCHANGED <<controller, spec, configMap, cronJob, job, pc, wSpec, edits>>

EditTask ==
    /\ edits < MaxEdits /\ edits' = edits + 1
    /\ spec' \in Specs \ {spec}
    /\ UNCHANGED <<controller, cSpec, configMap, cronJob, job, pc, wSpec>>

Next ==
    \/ StartReconcile \/ WriteConfigMap \/ WriteCronJob
    \/ StartJob \/ EndJob
    \/ SyncTask \/ EditTask

Spec == Init /\ [][Next]_vars

(* A backup ends, and scheduled times keep coming. *)
FairSpec ==
    /\ Spec
    /\ WF_vars(StartReconcile) /\ WF_vars(WriteConfigMap) /\ WF_vars(WriteCronJob)
    /\ WF_vars(StartJob) /\ WF_vars(EndJob)
    /\ WF_vars(SyncTask)
-----------------------------------------------------------------------------
(* Properties *)

(* SAFETY.  Volumes and mounts are built by two functions that must agree: *)
(* for whatever the users write, every mount names a volume of its pod.    *)
MountsBacked == Backed(PodOf(spec))

(* REFERENCE.  Which specifications ever get their pod, in the words of    *)
(* who writes them: no claim comes twice, and none has a name that makes   *)
(* no volume's; no path comes twice or is one of the operator's own; a     *)
(* template restarts as a Job may and mounts nothing it brought itself.    *)
(* In the older controller a path counts by its place in its target, and   *)
(* of each kind of database there is one, with a port.  The others are     *)
(* refused, or end the builder in a panic, and the old pod stays.          *)
Claims(s) == {PathAt(s, at).pvc : at \in ClaimPaths(s)}

ClaimsOnce(s) ==
    \A a, b \in ClaimPaths(s) : PathAt(s, a).pvc = PathAt(s, b).pvc => a = b

PathsFit(s) ==
    LET own == {MountPath(v) : v \in OwnVolumes \cup StorageVolumes(s)}
    IN  /\ \A a, b \in ClaimPaths(s) : PathAt(s, a).path = PathAt(s, b).path => a = b
        /\ \A a \in ClaimPaths(s) : PathAt(s, a).path \notin own

PlacesFit(s) == \A a, b \in ClaimPaths(s) : a[2] = b[2] => a = b

DatabasesFit(s) ==
    LET served == {t \in DOMAIN s.targets :
                      /\ s.targets[t].database # None
                      /\ s.targets[t].database.type \in {"mysql", "postgresql"}}
    IN  \A t, u \in served :
            /\ s.targets[t].database.port # None
            /\ s.targets[t].database.type = s.targets[u].database.type => t = u

TemplateFits(s, volumes) ==
    s.template # None =>
        /\ s.template.restartPolicy \in {"", "OnFailure", "Never"}
        /\ s.template.initMounts \subseteq volumes \cup Claims(s)

Fits(s) ==
    /\ ClaimsOnce(s) /\ Claims(s) \cap NoLabel = {}
    /\ IF controller = "internal"
       THEN PathsFit(s) /\ TemplateFits(s, OwnVolumes \cup StorageVolumes(s))
       ELSE PlacesFit(s) /\ DatabasesFit(s) /\ TemplateFits(s, Older!OwnVolumes(s))

WrittenExactly == Writable(spec) <=> Fits(spec)

(* LIVENESS.  After the last edit, ConfigMap and CronJob are those of the  *)
(* specification, if a valid pod can be built of it at all: neither a      *)
(* stale read nor an earlier refused pod leaves anything of an older one.  *)
DeclaredPodRuns ==
    <>[](Writable(spec) =>
            /\ cronJob = PodOf(spec)
            /\ controller = "internal" => configMap = ConfigMapOf(spec))

(* LIVENESS.  The declared backup is then taken again and again, held up   *)
(* only by a Job whose sidecar never ends: under ForbidConcurrent such a   *)
(* Job is the last one.                                                    *)
BackupsGoOn ==
    <>[]Writable(spec) =>
        []<>(job = PodOf(spec)) \/ <>[](job # None /\ Range(job.containers) # {Backup})

-----------------------------------------------------------------------------
(* What the repository says of the program, and the program does not do    *)

(* internal/controller/backuptask_controller.go:339: a volume is added for *)
(* each claim to be mounted.  One is added for each path: two paths in one *)
(* claim make a pod that is refused, and the Jobs go on with the old pod   *)
(* and the new list of targets, whose claims are not mounted.              *)
ClaimsMounted ==
    <>[](cronJob # None =>
            \A i \in DOMAIN configMap.targets :
                \A p \in ToSet(configMap.targets[i].paths) :
                    p.pvc # None => [volume |-> p.pvc, path |-> p.path] \in Range(cronJob.mounts))
=============================================================================
