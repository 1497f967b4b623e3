------------------------- MODULE BackupRecordReconcile -------------------------
(***************************************************************************)
(* The BackupRecord controller of the package controllers: it follows one  *)
(* record from the Jobs of its task to a terminal phase, by polling.  The  *)
(* package is not started by cmd/main.go, whose own BackupRecord           *)
(* controller does nothing; this is the behaviour it has when it is.       *)
(*                                                                         *)
(* Reads come from the cache and decide a pass at its start; the writes    *)
(* that follow, up to three, go to the API server one by one, each under   *)
(* the resourceVersion of the answer before.  As in BackupTaskReconcile a  *)
(* copy carries one bit for "this is the stored version".                  *)
(***************************************************************************)
EXTENDS Naturals, FiniteSets

CONSTANTS
    HasMaxAge,       \* is spec.retention.maxAgeDays set in the task?
    MaxJobs,         \* bound: Jobs of the record's incarnation of the task
    MaxDisruptions   \* bound: failed calls, lost replies, restarts, writes and
                     \* deletions by others, and the task created again

ASSUME RecordAssumption ==
    /\ HasMaxAge \in BOOLEAN
    /\ MaxJobs \in Nat \ {0} /\ MaxDisruptions \in Nat

Jobs == 1 .. MaxJobs       \* in the order of their creation
OwnJob == 1                \* the Job whose agent wrote the record

VARIABLES
    record,                 \* the BackupRecord
    task,                   \* "own", "gone", or "other": created again by that name
    jobs,                   \* the Jobs with the labels of the record's task
    cRecord, recordFresh,   \* the cached record; is it the stored version?
    cTask, cJobs,           \* the cached task and Jobs
    queued, timer,          \* the work queue: now, and after a delay
    pc,                     \* the write the pass makes next
    copy, copyFresh,        \* backupRecord, and whether its resourceVersion is current
    disruptions

objectVars == <<record, task, jobs>>
cacheVars  == <<cRecord, recordFresh, cTask, cJobs>>
queueVars  == <<queued, timer>>
passVars   == <<pc, copy, copyFresh>>
vars == <<objectVars, cacheVars, queueVars, passVars, disruptions>>

Terminal == {"Completed", "Failed"}

RecordType ==
    [exists : BOOLEAN,
     phase : {"", "Running", "Completed", "Failed", "Expired"},
     expires : BOOLEAN,                       \* status.expirationTime is set
     verified : {"", "Pending", "Success"},   \* status.verificationStatus.result
     completed : BOOLEAN]                     \* spec.completionTime is set

(* A Job: status.failed counts pods (evicted, or under restartPolicy       *)
(* Never), and the Job goes on after one fails, up to its backoffLimit.    *)
JobType == [state : {"absent", "running", "succeeded", "failed"},
            podFailed : BOOLEAN,
            collected : BOOLEAN]     \* deleted when its time to live was over

Writes == {"writeExpired", "writeCompleted", "writeFailed", "writeRunning",
           "writeExpiration", "writeVerification"}

TypeOK ==
    /\ record \in RecordType /\ cRecord \in RecordType /\ copy \in RecordType
    /\ recordFresh \in BOOLEAN /\ copyFresh \in BOOLEAN
    /\ task \in {"own", "gone", "other"} /\ cTask \in {"own", "gone", "other"}
    /\ jobs \in [Jobs -> JobType] /\ cJobs \in [Jobs -> JobType]
    /\ queued \in BOOLEAN /\ timer \in BOOLEAN
    /\ pc \in Writes \cup {"idle"}
    /\ disruptions \in Nat

NoRecord == [exists |-> FALSE, phase |-> "", expires |-> FALSE, verified |-> "",
             completed |-> FALSE]
NoJob == [state |-> "absent", podFailed |-> FALSE, collected |-> FALSE]

(* The first Job runs and its agent has just created the record; it may    *)
(* have asked for verification.                                            *)
Init ==
    /\ \E result \in {"", "Pending"} :
          record = [NoRecord EXCEPT !.exists = TRUE, !.verified = result]
    /\ task = "own"
    /\ jobs = [j \in Jobs |-> IF j = OwnJob THEN [NoJob EXCEPT !.state = "running"] ELSE NoJob]
    /\ cRecord = NoRecord /\ recordFresh = FALSE
    /\ cTask = task /\ cJobs = jobs
    /\ queued = FALSE /\ timer = FALSE
    /\ pc = "idle" /\ copy = NoRecord /\ copyFresh = FALSE
    /\ disruptions = 0

-----------------------------------------------------------------------------
(* One pass *)

Idle == pc' = "idle" /\ copy' = NoRecord /\ copyFresh' = FALSE

(* An error, or RequeueAfter: 30 seconds or 5 minutes. *)
Requeue_Forgotten == Idle /\ UNCHANGED queueVars

Requeue == Idle /\ timer' = TRUE /\ UNCHANGED queued

Done == Idle /\ UNCHANGED queueVars

Disrupt == disruptions < MaxDisruptions /\ disruptions' = disruptions + 1

(* The last of the Jobs with the task's labels; another run's as soon as   *)
(* there is one.                                                           *)
Listed == {j \in Jobs : cJobs[j].state # "absent" /\ ~cJobs[j].collected}
Latest == CHOOSE j \in Listed : \A k \in Listed : k <= j

FirstWrite_EndedIsCompleted ==
    CASE cTask = "gone" -> "writeExpired"
      [] cTask # "gone" /\ cJobs[Latest].state \in {"succeeded", "failed"} -> "writeCompleted"
      [] OTHER -> "writeRunning"

FirstWrite ==
    CASE cTask = "gone" -> "writeExpired"
      [] cTask # "gone" /\ cJobs[Latest].state = "succeeded" -> "writeCompleted"
      [] cTask # "gone" /\ cJobs[Latest].state # "succeeded" /\ cJobs[Latest].podFailed
            -> "writeFailed"
      [] OTHER -> "writeRunning"

(* Reconcile returns at once when there is nothing left to follow.         *)
Followed_Exists(r) == r.exists

Followed(r) == r.exists /\ r.phase \notin Terminal

(* Reconcile, and reconcileBackupRecord up to its first write: the         *)
(* decisions read only the cache.                                          *)
StartPass ==
    /\ pc = "idle" /\ queued
    /\ queued' = FALSE
    /\ \/ /\ ~Followed(cRecord)
          /\ UNCHANGED <<passVars, timer>>
       \/ /\ Followed(cRecord)
          /\ cTask # "gone" /\ Listed = {}
          /\ timer' = TRUE
          /\ UNCHANGED passVars
       \/ /\ Followed(cRecord)
          /\ cTask = "gone" \/ Listed # {}
          /\ pc' = FirstWrite
          /\ copy' = cRecord /\ copyFresh' = recordFresh
          /\ UNCHANGED timer
    /\ UNCHANGED <<objectVars, cacheVars, disruptions>>

(* The status of the copy before each Status().Update.  A failed           *)
(* verification is never stored: verifyBackup always succeeds.             *)
Prepared_FailedVerification(step, r) ==
    [r EXCEPT !.verified = IF step = "writeVerification" THEN "Failed" ELSE @]

Prepared(step, r) ==
    CASE step = "writeExpired"      -> [r EXCEPT !.phase = "Expired"]
      [] step = "writeCompleted"    -> [r EXCEPT !.phase = "Completed", !.completed = TRUE]
      [] step = "writeFailed"       -> [r EXCEPT !.phase = "Failed"]
      [] step = "writeRunning"      -> [r EXCEPT !.phase = "Running"]
      [] step = "writeExpiration"   -> [r EXCEPT !.expires = TRUE]
      [] step = "writeVerification" -> [r EXCEPT !.verified = "Success"]

(* Status().Update goes to the status subresource: the stored specification *)
(* stays, and comes back with the answer.                                  *)
Stored(r) == [r EXCEPT !.completed = record.completed]

(* What follows a write in the same pass: the expiration time, then the    *)
(* verification, of a completed record.                                    *)
NextWrite(step, r) ==
    CASE step = "writeCompleted" /\ HasMaxAge /\ ~r.expires -> "writeExpiration"
      [] step = "writeCompleted" /\ ~(HasMaxAge /\ ~r.expires) /\ r.verified = "Pending"
            -> "writeVerification"
      [] step = "writeExpiration" /\ r.verified = "Pending" -> "writeVerification"
      [] OTHER -> "idle"

Write ==
    /\ pc \in Writes
    /\ IF copyFresh
       THEN /\ record' = Stored(Prepared(pc, copy))
            /\ recordFresh' = (recordFresh /\ record' = record)
            /\ \/ /\ NextWrite(pc, copy) # "idle"
                  /\ pc' = NextWrite(pc, copy)
                  /\ copy' = record'
                  /\ UNCHANGED <<copyFresh, queueVars, disruptions>>
               \/ /\ NextWrite(pc, copy) = "idle"
                  /\ IF pc = "writeExpired" THEN Done ELSE Requeue
                  /\ UNCHANGED disruptions
               \/ Disrupt /\ Requeue
       ELSE Requeue /\ UNCHANGED <<record, recordFresh, disruptions>>
    /\ UNCHANGED <<task, jobs, cRecord, cTask, cJobs>>

CallFails ==
    /\ pc \in Writes
    /\ Disrupt
    /\ Requeue
    /\ UNCHANGED <<objectVars, cacheVars>>

-----------------------------------------------------------------------------
(* The manager.  Only records are watched. *)

SyncRecord ==
    /\ ~recordFresh
    /\ cRecord' = record /\ recordFresh' = TRUE
    /\ queued' = TRUE
    /\ UNCHANGED <<objectVars, cTask, cJobs, timer, passVars, disruptions>>

SyncTask ==
    /\ cTask # task /\ cTask' = task
    /\ UNCHANGED <<objectVars, cRecord, recordFresh, cJobs, queueVars, passVars, disruptions>>

SyncJobs ==
    /\ cJobs # jobs /\ cJobs' = jobs
    /\ UNCHANGED <<objectVars, cRecord, recordFresh, cTask, queueVars, passVars, disruptions>>

TimerFires ==
    /\ timer /\ timer' = FALSE /\ queued' = TRUE
    /\ UNCHANGED <<objectVars, cacheVars, passVars, disruptions>>

Restart ==
    /\ Disrupt
    /\ Idle
    /\ cRecord' = record /\ recordFresh' = TRUE /\ cTask' = task /\ cJobs' = jobs
    /\ queued' = record.exists /\ timer' = FALSE
    /\ UNCHANGED <<objectVars>>

-----------------------------------------------------------------------------
(* Everybody else *)

OthersStore(r) ==
    /\ record' = r
    /\ recordFresh' = FALSE /\ copyFresh' = FALSE
    /\ UNCHANGED <<task, jobs, cRecord, cTask, cJobs, queueVars, pc, copy>>

(* The retention policy, or a user. *)
DeleteRecord ==
    /\ record.exists
    /\ Disrupt
    /\ OthersStore(NoRecord)

(* A label, an annotation, the list of files: nothing shown here. *)
TouchRecord ==
    /\ record.exists
    /\ Disrupt
    /\ OthersStore(record)

DeleteTask ==
    /\ task \in {"own", "other"} /\ task' = "gone"
    /\ UNCHANGED <<record, jobs, cacheVars, queueVars, passVars, disruptions>>

RecreateTask ==
    /\ task = "gone"
    /\ Disrupt
    /\ task' = "other"
    /\ UNCHANGED <<record, jobs, cacheVars, queueVars, passVars>>

(* The next run of the schedule, under ForbidConcurrent. *)
StartJob ==
    /\ task = "own"
    /\ \E j \in Jobs :
          /\ jobs[j].state = "absent"
          /\ \A k \in Jobs : k < j => jobs[k].state \notin {"absent", "running"}
          /\ jobs' = [jobs EXCEPT ![j].state = "running"]
    /\ UNCHANGED <<record, task, cacheVars, queueVars, passVars, disruptions>>

(* A pod fails and is retried, the Job ends, or its time to live does. *)
JobProgress ==
    /\ \E j \in Jobs :
          \/ /\ jobs[j].state = "running"
             /\ \/ jobs' = [jobs EXCEPT ![j].podFailed = TRUE]
                \/ jobs' = [jobs EXCEPT ![j].state = "succeeded"]
                \/ jobs' = [jobs EXCEPT ![j].state = "failed", ![j].podFailed = TRUE]
          \/ /\ jobs[j].state \in {"succeeded", "failed"}
             /\ jobs' = [jobs EXCEPT ![j].collected = TRUE]
    /\ UNCHANGED <<record, task, cacheVars, queueVars, passVars, disruptions>>

Next ==
    \/ StartPass \/ Write \/ CallFails
    \/ SyncRecord \/ SyncTask \/ SyncJobs \/ TimerFires \/ Restart
    \/ DeleteRecord \/ TouchRecord \/ DeleteTask \/ RecreateTask \/ StartJob \/ JobProgress

Spec == Init /\ [][Next]_vars

FairSpec ==
    /\ Spec
    /\ WF_vars(StartPass) /\ WF_vars(Write) /\ WF_vars(TimerFires)
    /\ WF_vars(SyncRecord) /\ WF_vars(SyncTask) /\ WF_vars(SyncJobs)

-----------------------------------------------------------------------------
(* Properties *)

(* STEPS.  A terminal phase is final: no pass that began on a stale copy   *)
(* and no second pass after a lost reply takes it back, and nothing        *)
(* expires a record that has completed.                                    *)
TerminalIsFinal ==
    [][record.phase \in Terminal /\ record'.exists => record'.phase = record.phase]_vars

(* SAFETY.  A record is completed only if a run of its task has succeeded. *)
(* Which one is another matter: the latest, not the one that wrote it.     *)
CompletedHasSuccess ==
    record.phase = "Completed" => \E j \in Jobs : jobs[j].state = "succeeded"

(* SAFETY.  A record still to be followed is not lost sight of: there is a *)
(* pass, or the key waits or comes back, or a change of the record is      *)
(* still to be seen; in whatever way the last pass ended, and also when    *)
(* its Jobs were not listed or its last reply got lost.  An expired record *)
(* is looked at again only when it changes.                                *)
PollingGoesOn ==
    Followed(record) /\ record.phase # "Expired" =>
        queued \/ timer \/ pc # "idle" \/ ~recordFresh

(* LIVENESS.  Jobs are not watched: the phase follows by polling alone.    *)
(* Still, when the last run of a task that lives on has ended and is still *)
(* there to be seen, a record ends in a terminal phase.                    *)
FollowsJobs ==
    <>[](\/ ~record.exists \/ task # "own" \/ record.phase \in Terminal
         \/ \A j \in Jobs : jobs[j].state \in {"succeeded", "failed"} => jobs[j].collected
         \/ \E j \in Jobs : jobs[j].state = "running")
=============================================================================
