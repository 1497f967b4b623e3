------------------------- MODULE BackupTaskRefinement -------------------------
(***************************************************************************)
(* The controller implements ScheduledTask: the schedule in force is the   *)
(* CronJob on the API server, the acknowledgement is                       *)
(* status.observedGeneration; caches, queue and worker are hidden.         *)
(***************************************************************************)
EXTENDS BackupTaskReconcile

Promise == INSTANCE ScheduledTask WITH
    uid          <- task.uid,
    lastUid      <- lastUid,
    desired      <- task.gen,
    deleting     <- task.del,
    schedule     <- [uid |-> cronJob.uid, gen |-> cronJob.gen],
    acknowledged <- task.obs

(* REFINEMENT.  Every behaviour of Reconcile among users, Jobs, lagging    *)
(* caches, lost replies and restarts is one of ScheduledTask: CronJob and  *)
(* acknowledgement never go back to an earlier generation or incarnation,  *)
(* and the finalizer goes only after the CronJob.  Holds when nobody else  *)
(* deletes the CronJob (ThirdParty = FALSE).                               *)
ImplementsPromise == Promise!Spec
=============================================================================
