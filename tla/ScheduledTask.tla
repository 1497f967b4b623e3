---------------------------- MODULE ScheduledTask ----------------------------
(***************************************************************************)
(* What the operator promises about one BackupTask, whatever its passes,   *)
(* caches, retries and restarts: a schedule belongs to the task that is    *)
(* declared now, follows the generations of its specification forwards     *)
(* only, is acknowledged only once it is in force, is withdrawn only in a  *)
(* deletion, and is gone before the task is.                               *)
(***************************************************************************)
EXTENDS Naturals

VARIABLES
    uid,           \* the incarnation declared, 0 for none
    lastUid,       \* the newest incarnation so far
    desired,       \* generation of the specification
    deleting,      \* its deletion was requested
    schedule,      \* the schedule in force: whose it is, of which generation
    acknowledged   \* the generation reported as observed

vars == <<uid, lastUid, desired, deleting, schedule, acknowledged>>

NoSchedule == [uid |-> 0, gen |-> 0]

Init ==
    /\ uid = 0 /\ lastUid = 0 /\ desired = 0 /\ deleting = FALSE
    /\ schedule = NoSchedule /\ acknowledged = 0

Declare ==
    /\ uid = 0 /\ schedule = NoSchedule
    /\ lastUid' = lastUid + 1 /\ uid' = lastUid'
    /\ desired' = 1 /\ deleting' = FALSE /\ acknowledged' = 0
    /\ UNCHANGED schedule

Edit ==
    /\ uid # 0 /\ ~deleting
    /\ desired' = desired + 1
    /\ UNCHANGED <<uid, lastUid, deleting, schedule, acknowledged>>

(* A newer generation comes into force, or one that was withdrawn does     *)
(* again while a pass that began before the deletion ends.                 *)
Apply ==
    /\ uid # 0
    /\ \E g \in schedule.gen + 1 .. desired : schedule' = [uid |-> uid, gen |-> g]
    /\ UNCHANGED <<uid, lastUid, desired, deleting, acknowledged>>

Acknowledge ==
    /\ uid # 0
    /\ acknowledged' \in acknowledged + 1 .. (IF deleting THEN desired ELSE schedule.gen)
    /\ UNCHANGED <<uid, lastUid, desired, deleting, schedule>>

RequestDeletion ==
    /\ uid # 0 /\ ~deleting
    /\ deleting' = TRUE
    /\ UNCHANGED <<uid, lastUid, desired, schedule, acknowledged>>

Withdraw ==
    /\ deleting /\ schedule # NoSchedule
    /\ schedule' = NoSchedule
    /\ UNCHANGED <<uid, lastUid, desired, deleting, acknowledged>>

(* The task disappears: at once when nothing was registered for it yet. *)
Vanish ==
    /\ uid # 0 /\ schedule = NoSchedule
    /\ uid' = 0 /\ desired' = 0 /\ deleting' = FALSE /\ acknowledged' = 0
    /\ UNCHANGED <<lastUid, schedule>>

Next ==
    \/ Declare \/ Edit \/ Apply \/ Acknowledge
    \/ RequestDeletion \/ Withdraw \/ Vanish

Spec == Init /\ [][Next]_vars
=============================================================================
