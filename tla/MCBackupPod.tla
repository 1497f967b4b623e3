------------------------------ MODULE MCBackupPod ------------------------------
(***************************************************************************)
(* Small instances of BackupPod for TLC: specifications of one or two      *)
(* targets.                                                                *)
(***************************************************************************)
EXTENDS BackupPod, TLC

CONSTANTS data, logs, dotted     \* claims, one of them with a dot in its name

Directory(paths) == [name |-> "files", type |-> "directory", database |-> None, paths |-> paths]
Database(name, dbms, port) ==
    [name |-> name, type |-> "database", paths |-> <<>>,
     database |-> [type |-> dbms, port |-> port, secret |-> "auth"]]
Claim(path, pvc) == [path |-> path, pvc |-> pvc]

(* A maxBackupCount of zero is a limit, a zero of keepLast is none. *)
Base ==
    [targets |-> <<Directory(<<Claim("/srv", data)>>)>>,
     storage |-> [type |-> "s3", blocks |-> {"s3"}], encryption |-> None,
     retention |-> [maxAgeDays |-> None, maxBackupCount |-> 0,
                    hours |-> 0, days |-> 7, weeks |-> 0, months |-> 0],
     image |-> "backup-agent:latest", cmd |-> "backup.sh", template |-> None]

WithTargets(targets) == [Base EXCEPT !.targets = targets]

SharedClaim == WithTargets(<<Directory(<<Claim("/srv", data), Claim("/var", data)>>)>>)

(* Two targets with claims, which collide in the older controller; a claim *)
(* at the path of the temporary volume, which collides in the other; two   *)
(* paths in one claim; a path of no claim; a claim with a dot.  Databases: *)
(* two of a kind under one prefix, one without a port, one without a       *)
(* client.  A storage block of another type than the declared one; Secrets *)
(* as volumes; no retention; a template whose init container mounts a      *)
(* volume of its own, and one that mounts the storage of one controller.   *)
Written ==
    {Base, SharedClaim,
     WithTargets(<<Directory(<<Claim("/srv", data)>>), Directory(<<Claim("/var", logs)>>)>>),
     WithTargets(<<Directory(<<Claim("/srv", None), Claim(TmpPath, logs)>>)>>),
     WithTargets(<<Directory(<<Claim("/srv", dotted)>>)>>),
     WithTargets(<<Database("db-a", "mysql", 3306), Database("db_a", "mysql", 3307)>>),
     WithTargets(<<Database("db-a", "postgresql", None)>>),
     [WithTargets(<<Database("db-a", "mysql", 3306), Database("db_b", "mongodb", None)>>)
         EXCEPT !.storage = [type |-> "sftp", blocks |-> {"sftp", "nfs"}],
                !.encryption = [enabled |-> TRUE, key |-> "aes"], !.retention = None],
     [Base EXCEPT !.storage = [type |-> "nfs", blocks |-> {"nfs"}], !.image = "",
                  !.template = [restartPolicy |-> "", initMounts |-> {NFSStorage}]],
     [Base EXCEPT !.template = [restartPolicy |-> "Never", initMounts |-> {"tools"}]]}

SharedClaims == {Base, SharedClaim}

PrefixOf == "db-a" :> "DB_DB_A_" @@ "db_a" :> "DB_DB_A_" @@ "db_b" :> "DB_DB_B_"
=============================================================================
