-------------------------------- MODULE OlderPod --------------------------------
(***************************************************************************)
(* The pod the older controller makes of a BackupTask: the builders of     *)
(* package controllers.  It has no ConfigMap and no storage volume; the    *)
(* Secrets are volumes, which nothing mounts; claims are mounted at a path *)
(* counted within their target; each database gets a client as a sidecar.  *)
(* Specifications, and lists, are those of BackupPod.                      *)
(***************************************************************************)
EXTENDS Naturals

CONSTANT None

ClaimPaths(s) ==
    {at \in UNION {{t} \X DOMAIN s.targets[t].paths : t \in DOMAIN s.targets} :
        s.targets[at[1]].paths[at[2]].pvc # None}

ClaimAt(s, at) == s.targets[at[1]].paths[at[2]].pvc

Encrypts(s) == s.encryption # None /\ s.encryption.enabled

FixedVolumes == {"backup-data", "temp", "sftp-secret", "encryption-key"}

OwnVolumes(s) ==
    {"backup-data", "temp"}
        \cup (IF "sftp" \in s.storage.blocks THEN {"sftp-secret"} ELSE {})
        \cup (IF Encrypts(s) THEN {"encryption-key"} ELSE {})

buildVolumes(s) ==
    [e \in {<<v>> : v \in OwnVolumes(s)} \cup ClaimPaths(s) |->
        IF e \in ClaimPaths(s) THEN ClaimAt(s, e) ELSE e[1]]

(* "/mnt/pvc-<n>", n the place of the path in its target. *)
buildVolumeMounts(s) ==
    [e \in {<<"backup-data">>, <<"temp">>} \cup ClaimPaths(s) |->
        IF e \in ClaimPaths(s)
        THEN [volume |-> ClaimAt(s, e), path |-> <<"/mnt/pvc", e[2] - 1>>]
        ELSE [volume |-> e[1],
              path |-> <<IF e[1] = "temp" THEN "/tmp" ELSE "/backup/data">>]]

(* The storage, s3 and sftp only, and the encryption. *)
buildEnvVars(s) ==
    (IF s.storage.type \in {"s3", "sftp"} \cap s.storage.blocks
     THEN {s.storage.type} ELSE {})
        \cup (IF Encrypts(s) THEN {"encryption"} ELSE {})

Client == [mysql |-> "mysql-client", postgresql |-> "postgres-client"]

(* The targets with a database block, whatever their type, of a kind that  *)
(* has a client.                                                           *)
WithClient(s) ==
    {t \in DOMAIN s.targets :
        /\ s.targets[t].database # None
        /\ s.targets[t].database.type \in DOMAIN Client}

buildContainers(s) ==
    [e \in {<<"backup">>} \cup {<<"client", t>> : t \in WithClient(s)} |->
        IF e = <<"backup">> THEN "backup" ELSE Client[s.targets[e[2]].database.type]]

(* buildDatabaseSidecar follows the port without a test for nil. *)
Panics(s) == \E t \in WithClient(s) : s.targets[t].database.port = None

RestartPolicy(s) ==
    IF s.template = None \/ s.template.restartPolicy = ""
    THEN "OnFailure" ELSE s.template.restartPolicy

InitMounts(s) == IF s.template = None THEN {} ELSE s.template.initMounts

(* The template keeps its init containers and loses its volumes. *)
PodOf(s) ==
    [image |-> "easzlab.io.local/backup-agent:latest", command |-> "/scripts/backup.sh",
     env |-> buildEnvVars(s), envFrom |-> <<>>, containers |-> buildContainers(s),
     mounts |-> buildVolumeMounts(s), volumes |-> buildVolumes(s),
     restartPolicy |-> RestartPolicy(s), initMounts |-> InitMounts(s)]
=============================================================================
