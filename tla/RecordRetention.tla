---------------------------- MODULE RecordRetention ----------------------------
(***************************************************************************)
(* The retention policy of a BackupTask: applyRetentionPolicy and          *)
(* filterRecordsToDelete on the list the records' cache gives, in whatever *)
(* order it gives it, while agents go on reporting backups, users edit the *)
(* policy and the clock goes on.  Time is counted in ticks, Day of them a  *)
(* day, and durations wrap as the code's int64 nanoseconds do.  The pass   *)
(* around it, and that it comes again and again, is BackupTaskReconcile.   *)
(* backupHistoryCount, set after the status was written on a copy that is  *)
(* then dropped, is left out.                                              *)
(***************************************************************************)
EXTENDS Integers, FiniteSets

CONSTANTS
    Records,         \* names of BackupRecords, each used once
    None,            \* a limit that is not set
    Policies,        \* the policies users write: maxBackupCount, maxAgeDays
    Day,             \* 24 hours in ticks
    DurationLimit,   \* 2^63 nanoseconds in ticks: where time.Duration wraps
    MaxClock,        \* bound: ticks the clock runs
    MaxEdits         \* bound: edits of the policy

ASSUME RetentionAssumption ==
    /\ IsFiniteSet(Records)
    /\ None \notin Int
    /\ Policies \subseteq [count : Int \cup {None}, days : Int \cup {None}]
    /\ Day \in Nat \ {0} /\ DurationLimit \in Nat \ {0}
    /\ MaxClock \in Nat /\ MaxEdits \in Nat

VARIABLES
    clock,     \* the present tick
    created,   \* creationTimestamp of each record, 0 before it exists
    records,   \* the records on the API server
    cached,    \* the records in the operator's cache
    retention, \* spec.retention of the stored task
    cRetention,\* spec.retention of the cached task
    edits,     \* edits of the policy so far
    pc,        \* "idle", or "delete" while a pass works through its list
    policy,    \* spec.retention in the copy of the task the pass has
    listed,    \* the records the pass listed
    current,   \* was that list complete, and did it name only existing records?
    todo       \* those it still has to delete

taskVars == <<retention, cRetention, edits>>
passVars == <<pc, policy, listed, current, todo>>
vars == <<clock, created, records, cached, taskVars, passVars>>

NoPolicy == [count |-> None, days |-> None]

TypeOK ==
    /\ clock \in Nat
    /\ created \in [Records -> Nat]
    /\ records \subseteq Records /\ cached \subseteq Records
    /\ retention \in Policies \cup {NoPolicy} /\ cRetention \in Policies \cup {NoPolicy}
    /\ edits \in Nat
    /\ pc \in {"idle", "delete"}
    /\ policy \in Policies \cup {NoPolicy}
    /\ listed \subseteq Records /\ todo \subseteq listed
    /\ current \in BOOLEAN

Init ==
    /\ clock = 1
    /\ created = [r \in Records |-> 0]
    /\ records = {} /\ cached = {}
    /\ retention = NoPolicy /\ cRetention = NoPolicy /\ edits = 0
    /\ pc = "idle" /\ policy = NoPolicy
    /\ listed = {} /\ current = FALSE /\ todo = {}

-----------------------------------------------------------------------------
(* filterRecordsToDelete *)

(* time.Duration(days) * 24 * time.Hour, an int64 that wraps at 2^63 ns.   *)
MaxAge(days) ==
    ((days * Day + DurationLimit) % (2 * DurationLimit)) - DurationLimit

(* The copy named sortedRecords is in the order of the list. *)
Orders(S) ==
    {pos \in [S -> 1 .. Cardinality(S)] : \A r, q \in S : pos[r] = pos[q] => r = q}

BeyondCount_OffByOne(p, pos) ==
    IF p.count = None THEN {} ELSE {r \in DOMAIN pos : pos[r] >= p.count}

BeyondCount(p, pos) ==
    IF p.count = None THEN {} ELSE {r \in DOMAIN pos : pos[r] > p.count}

TooOld_Inclusive(p, S) ==
    IF p.days = None THEN {} ELSE {r \in S : created[r] + MaxAge(p.days) <= clock}

TooOld_UnlessCounted(p, S) ==
    IF p.days = None \/ p.count # None
    THEN {} ELSE {r \in S : created[r] + MaxAge(p.days) < clock}

TooOld(p, S) ==
    IF p.days = None THEN {} ELSE {r \in S : created[r] + MaxAge(p.days) < clock}

-----------------------------------------------------------------------------
(* applyRetentionPolicy *)

(* sortedRecords[count:] panics when count is negative, which the schema   *)
(* admits; any length exceeds a negative count, so even an empty list does.*)
Panics(p) == p.count # None /\ p.count < 0

(* The pass works with the policy of its copy of the task.  A record       *)
(* chosen for both reasons is on the result twice: its second deletion     *)
(* finds nothing.  A panic is recovered as an error of the pass, before    *)
(* anything was deleted.                                                   *)
ApplyRetentionPolicy ==
    /\ pc = "idle"
    /\ policy' = cRetention
    /\ \E pos \in Orders(cached) :
          todo' = IF Panics(policy') THEN {}
                  ELSE BeyondCount(policy', pos) \cup TooOld(policy', cached)
    /\ listed' = cached
    /\ current' = (cached = records)
    /\ pc' = "delete"
    /\ UNCHANGED <<clock, created, records, cached, taskVars>>

(* An error is logged and the loop goes on. *)
DeleteRecord ==
    /\ pc = "delete"
    /\ \E r \in todo :
          /\ todo' = todo \ {r}
          /\ records' \in {records, records \ {r}}
    /\ UNCHANGED <<clock, created, cached, taskVars, pc, policy, listed, current>>

EndPass_OnFirstError ==
    /\ pc = "delete"
    /\ pc' = "idle" /\ policy' = NoPolicy /\ listed' = {} /\ current' = FALSE
    /\ UNCHANGED <<clock, created, records, cached, taskVars, todo>>

EndPass ==
    /\ pc = "delete" /\ todo = {}
    /\ pc' = "idle" /\ policy' = NoPolicy /\ listed' = {} /\ current' = FALSE
    /\ UNCHANGED <<clock, created, records, cached, taskVars, todo>>

-----------------------------------------------------------------------------
(* The caches, the agents, the user, the clock *)

SyncCache ==
    /\ cached # records
    /\ cached' = records
    /\ UNCHANGED <<clock, created, records, taskVars, passVars>>

SyncTask ==
    /\ cRetention # retention
    /\ cRetention' = retention
    /\ UNCHANGED <<clock, created, records, cached, retention, edits, passVars>>

Report ==
    /\ \E r \in Records :
          /\ created[r] = 0
          /\ created' = [created EXCEPT ![r] = clock]
          /\ records' = records \cup {r}
    /\ UNCHANGED <<clock, cached, taskVars, passVars>>

EditTask ==
    /\ edits < MaxEdits /\ edits' = edits + 1
    /\ retention' \in Policies
    /\ UNCHANGED <<clock, created, records, cached, cRetention, passVars>>

Tick ==
    /\ clock < MaxClock
    /\ clock' = clock + 1
    /\ UNCHANGED <<created, records, cached, taskVars, passVars>>

Next ==
    \/ ApplyRetentionPolicy \/ DeleteRecord \/ EndPass
    \/ SyncCache \/ SyncTask \/ Report \/ EditTask \/ Tick

Spec == Init /\ [][Next]_vars

(* Passes come again and again and run to their end, caches catch up, and  *)
(* a deletion tried without end is carried out once.                       *)
FairSpec ==
    /\ Spec
    /\ WF_vars(ApplyRetentionPolicy) /\ WF_vars(DeleteRecord) /\ WF_vars(EndPass)
    /\ WF_vars(SyncCache) /\ WF_vars(SyncTask)
    /\ SF_vars(DeleteRecord /\ records' # records)

-----------------------------------------------------------------------------
(* Properties *)

Deleted == records \ records'

(* STEPS.  A record goes only because it is past its days, or because the  *)
(* list the pass had was longer than maxBackupCount: however stale that    *)
(* list is, whatever its order, and however long the deletion takes.       *)
DeletionsJustified ==
    [][\A r \in Deleted :
          \/ policy.days # None /\ clock > created[r] + policy.days * Day
          \/ policy.count # None /\ Cardinality(listed) > policy.count]_vars

(* SAFETY.  A pass that began on a current list never leaves fewer than    *)
(* maxBackupCount of the records it saw, except for those past their age,  *)
(* at any moment of its loop.                                              *)
CurrentPassKeepsCount ==
    pc = "delete" /\ current /\ policy.count # None =>
        LET left == Cardinality((records \cap listed) \cup TooOld(policy, listed))
        IN  left >= policy.count \/ left = Cardinality(listed)

(* REFERENCE.  On a list that comes newest first, the filter chooses what  *)
(* a retention policy means: the surplus, no record of which is newer than *)
(* one that stays, and the records past their days.                        *)
NewestFirst(pos) ==
    \A r, q \in DOMAIN pos : created[r] > created[q] => pos[r] < pos[q]

FilterRightWhenSorted ==
    \A p \in Policies, pos \in Orders(cached) : NewestFirst(pos) /\ ~Panics(p) =>
        LET surplus == BeyondCount(p, pos)
            kept    == cached \ surplus
        IN  /\ p.count # None =>
                  Cardinality(kept) = p.count \/ (kept = cached /\ Cardinality(kept) < p.count)
            /\ \A r \in surplus, q \in kept : created[q] >= created[r]
            /\ p.days # None =>
                  TooOld(p, cached) = {r \in cached : clock - created[r] > p.days * Day}

(* LIVENESS.  Whatever policies were in force before, however often lists  *)
(* were stale and deletions failed: once the user, the agents and the      *)
(* clock come to rest, what is left complies with the last policy.  One    *)
(* exception is in the code: a negative maxBackupCount stops all pruning,  *)
(* that by age too.                                                        *)
Complies(p) ==
    /\ p.count # None => Cardinality(records) <= p.count
    /\ p.days # None => \A r \in records : clock <= created[r] + p.days * Day

RetentionSettles == <>[](Panics(retention) \/ Complies(retention))

-----------------------------------------------------------------------------
(* What the repository says of the program, and the program does not do    *)

(* api/v1alpha1/backuptask_types.go:101: maxAgeDays is the number of days  *)
(* a backup is kept.  From 106752 days on the duration wraps, and backups  *)
(* are past it when they are made.                                         *)
AgeKeepsDays ==
    [][\A r \in Deleted : policy.count = None =>
          policy.days # None /\ clock > created[r] + policy.days * Day]_vars
=============================================================================
