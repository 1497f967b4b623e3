------------------------------ MODULE MCAdmission ------------------------------
(***************************************************************************)
(* A small instance of Admission for TLC: one specification that is in     *)
(* order, and others that differ from it in one respect each.              *)
(***************************************************************************)
EXTENDS Admission

Database(filled, engine, port) ==
    [name |-> "db", type |-> "database",
     block |-> [filled |-> filled, engine |-> engine, port |-> port]]
Directory(filled, level) ==
    [name |-> "files", type |-> "directory", block |-> [filled |-> filled, level |-> level]]
NFS(filled) == [name |-> "share", type |-> "nfs", block |-> [filled |-> filled]]
Without(type) == [name |-> "none", type |-> type, block |-> None]

Plain == Database(TargetFields.database, "mysql", None)

Valid ==
    [schedule |-> "daily", targets |-> <<Plain>>,
     storage |-> [type |-> "s3", block |-> [filled |-> StorageFields.s3]],
     encryption |-> [enabled |-> FALSE, key |-> FALSE]]

TargetLists ==
    {<<>>,
     <<Plain, Without("config")>>,
     <<Plain, Without("database")>>,
     <<Without("tape")>>,
     <<Database({"host"}, "mysql", None)>>,
     <<Database(TargetFields.database, "mysql", 0)>>,
     <<Database(TargetFields.database, "redis", 65535)>>,
     <<Database(TargetFields.database, "mysql", 65536)>>,
     <<Database(TargetFields.database, "oracle", None)>>,
     <<Directory(TargetFields.directory, 9), NFS(TargetFields.nfs)>>,
     <<Directory({"paths"}, 9)>>,
     <<Directory(TargetFields.directory, 10)>>,
     <<NFS({"server"})>>}

MCSpecs ==
    {Valid,
     [Valid EXCEPT !.schedule = "hourly"], [Valid EXCEPT !.schedule = "every day"],
     [Valid EXCEPT !.storage = [type |-> "smb", block |-> [filled |-> {"server"}]]],
     [Valid EXCEPT !.storage = [type |-> "sftp", block |-> None]],
     [Valid EXCEPT !.storage = [type |-> "nfs", block |-> [filled |-> StorageFields.nfs]]],
     [Valid EXCEPT !.encryption = [enabled |-> TRUE, key |-> FALSE]],
     [Valid EXCEPT !.encryption = [enabled |-> TRUE, key |-> TRUE]]}
        \cup {[Valid EXCEPT !.targets = l] : l \in TargetLists}
=============================================================================
