--------------------------- MODULE BackupRecordProofs ---------------------------
(***************************************************************************)
(* Theorems about BackupRecordReconcile: its types, that a record          *)
(* completes only after a success, that a terminal phase is final, and     *)
(* that the polling of a record does not break off before that, for any    *)
(* number of Jobs and disruptions.                                         *)
(***************************************************************************)
EXTENDS BackupRecordReconcile, WellFoundedInduction, TLAPS

LEMMA AbsentTyped == NoRecord \in RecordType /\ NoJob \in JobType
BY DEF NoRecord, NoJob, RecordType, JobType

(* The last of the Jobs in the cache is one of them. *)
LEMMA LatestListed ==
    ASSUME Listed # {} PROVE Latest \in Listed
<1> DEFINE Places == {MaxJobs - j : j \in Listed}
<1>1. Listed \subseteq Jobs
    BY DEF Listed
<1>2. Places \subseteq Nat /\ Places # {}
    <2>1. \A j \in Listed : MaxJobs - j \in Nat
        BY <1>1, RecordAssumption DEF Jobs
    <2>2. PICK j : j \in Listed
        OBVIOUS
    <2> QED BY <2>1, <2>2
<1>3. PICK n \in Places : \A m \in Places : n <= m
    <2> DEFINE Less == OpToRel(<, Nat)
    <2>1. PICK n \in Places : \A m \in Places : ~(<<m, n>> \in Less)
        <3> HIDE DEF Places, Less
        <3>1. IsWellFoundedOn(Less, Nat)
            BY NatLessThanWellFounded DEF Less
        <3> QED BY <1>2, <3>1, WFMin
    <2>2. \A m \in Nat : m < n => <<m, n>> \in Less
        BY <1>2 DEF OpToRel
    <2>3. ASSUME NEW m \in Places PROVE n <= m
        <3>1. ~(<<m, n>> \in Less)
            BY <2>1
        <3>2. m \in Nat /\ n \in Nat
            BY <1>2
        <3>3. ~(m < n)
            BY <2>2, <3>1, <3>2
        <3> QED BY <3>2, <3>3
    <2> QED BY <2>3
<1>4. PICK j \in Listed : n = MaxJobs - j
    BY <1>3
<1>5. ASSUME NEW k \in Listed PROVE k <= j
    <2>1. MaxJobs - j <= MaxJobs - k
        BY <1>3, <1>4
    <2>2. j \in Nat /\ k \in Nat /\ MaxJobs \in Nat
        BY <1>1, RecordAssumption DEF Jobs
    <2> QED BY <2>1, <2>2
<1>6. \E l \in Listed : \A k \in Listed : k <= l
    BY <1>5
<1> QED BY <1>6 DEF Latest

LEMMA FirstWriteIsWrite ==
    /\ FirstWrite \in {"writeExpired", "writeCompleted", "writeFailed", "writeRunning"}
    /\ FirstWrite = "writeCompleted" => cTask # "gone" /\ cJobs[Latest].state = "succeeded"
BY DEF FirstWrite

(* What a write makes of a copy, and of the stored record. *)
LEMMA WrittenTyped ==
    ASSUME NEW step \in Writes, NEW r \in RecordType, record \in RecordType
    PROVE  /\ Stored(Prepared(step, r)) \in RecordType
           /\ step \in {"writeExpiration", "writeVerification"}
                 => Stored(Prepared(step, r)).phase = r.phase
           /\ Stored(Prepared(step, r)).phase = "Completed"
                 => step = "writeCompleted" \/ r.phase = "Completed"
           /\ Stored(Prepared(step, r)).exists = r.exists
           /\ NextWrite(step, r) \in {"idle", "writeExpiration", "writeVerification"}
<1>1. NextWrite(step, r) \in {"idle", "writeExpiration", "writeVerification"}
    BY DEF NextWrite
<1>2. /\ Prepared(step, r) \in RecordType
      /\ step \in {"writeExpiration", "writeVerification"} => Prepared(step, r).phase = r.phase
      /\ Prepared(step, r).phase = "Completed" => step = "writeCompleted" \/ r.phase = "Completed"
      /\ Prepared(step, r).exists = r.exists
    <2>1. CASE step = "writeExpired"
        BY <2>1 DEF Prepared, RecordType
    <2>2. CASE step = "writeCompleted"
        BY <2>2 DEF Prepared, RecordType
    <2>3. CASE step = "writeFailed"
        BY <2>3 DEF Prepared, RecordType
    <2>4. CASE step = "writeRunning"
        BY <2>4 DEF Prepared, RecordType
    <2>5. CASE step = "writeExpiration"
        BY <2>5 DEF Prepared, RecordType
    <2>6. CASE step = "writeVerification"
        BY <2>6 DEF Prepared, RecordType
    <2> QED BY <2>1, <2>2, <2>3, <2>4, <2>5, <2>6 DEF Writes
<1>3. ASSUME NEW p \in RecordType
      PROVE  /\ Stored(p) \in RecordType
             /\ Stored(p).phase = p.phase /\ Stored(p).exists = p.exists
    BY DEF Stored, RecordType
<1> QED BY <1>1, <1>2, <1>3

LEMMA TypeOKStep ==
    TypeOK /\ [Next]_vars => TypeOK'
<1> SUFFICES ASSUME TypeOK, [Next]_vars PROVE TypeOK'
    OBVIOUS
<1> USE DEF TypeOK, objectVars, cacheVars, queueVars, passVars
<1>0. Disrupt => disruptions' \in Nat
    BY DEF Disrupt
<1>1. CASE StartPass
    <2>1. FirstWrite \in Writes
        BY FirstWriteIsWrite DEF Writes
    <2> QED BY <1>1, <2>1 DEF StartPass
<1>2. CASE Write
    <2>1. CASE copyFresh
        <3>1. record' \in RecordType /\ NextWrite(pc, copy) \in Writes \cup {"idle"}
            BY <1>2, <2>1, WrittenTyped DEF Write, Writes
        <3>2. recordFresh' \in BOOLEAN
            BY <1>2, <2>1 DEF Write
        <3> QED BY <1>0, <1>2, <2>1, <3>1, <3>2, AbsentTyped DEF Write, Done, Requeue, Idle
    <2>2. CASE ~copyFresh
        BY <1>2, <2>2, AbsentTyped DEF Write, Requeue, Idle
    <2> QED BY <2>1, <2>2
<1>3. CASE CallFails
    BY <1>0, <1>3, AbsentTyped DEF CallFails, Requeue, Idle
<1>4. CASE SyncRecord \/ SyncTask \/ SyncJobs \/ TimerFires
    BY <1>4 DEF SyncRecord, SyncTask, SyncJobs, TimerFires
<1>5. CASE Restart
    <2>1. record.exists \in BOOLEAN
        BY DEF RecordType
    <2> QED BY <1>0, <1>5, <2>1, AbsentTyped DEF Restart, Idle
<1>6. CASE DeleteRecord \/ TouchRecord
    BY <1>0, <1>6, AbsentTyped DEF DeleteRecord, TouchRecord, OthersStore
<1>7. CASE DeleteTask \/ RecreateTask
    BY <1>0, <1>7 DEF DeleteTask, RecreateTask
<1>8. CASE StartJob \/ JobProgress
    <2>1. ASSUME NEW j \in Jobs, NEW s \in {"absent", "running", "succeeded", "failed"}
          PROVE  /\ [jobs[j] EXCEPT !.state = s] \in JobType
                 /\ [jobs[j] EXCEPT !.podFailed = TRUE] \in JobType
                 /\ [[jobs[j] EXCEPT !.state = s] EXCEPT !.podFailed = TRUE] \in JobType
                 /\ [jobs[j] EXCEPT !.collected = TRUE] \in JobType
        BY Zenon DEF JobType
    <2>2. ASSUME NEW j \in Jobs, NEW job \in JobType
          PROVE  [jobs EXCEPT ![j] = job] \in [Jobs -> JobType]
        OBVIOUS
    <2>3. PICK j \in Jobs : \E job \in JobType : jobs' = [jobs EXCEPT ![j] = job]
        <3>1. CASE StartJob
            BY <3>1, <2>1 DEF StartJob
        <3>2. CASE JobProgress
            <4>1. PICK j \in Jobs :
                      \/ jobs' = [jobs EXCEPT ![j].podFailed = TRUE]
                      \/ jobs' = [jobs EXCEPT ![j].state = "succeeded"]
                      \/ jobs' = [jobs EXCEPT ![j].state = "failed", ![j].podFailed = TRUE]
                      \/ jobs' = [jobs EXCEPT ![j].collected = TRUE]
                BY <3>2, Zenon DEF JobProgress
            <4>2. \E job \in JobType : jobs' = [jobs EXCEPT ![j] = job]
                <5>1. CASE jobs' = [jobs EXCEPT ![j].podFailed = TRUE]
                    BY <5>1, <2>1
                <5>2. CASE jobs' = [jobs EXCEPT ![j].state = "succeeded"]
                    BY <5>2, <2>1
                <5>3. CASE jobs' = [jobs EXCEPT ![j].state = "failed", ![j].podFailed = TRUE]
                    BY <5>3, <2>1
                <5>4. CASE jobs' = [jobs EXCEPT ![j].collected = TRUE]
                    BY <5>4, <2>1
                <5> QED BY <4>1, <5>1, <5>2, <5>3, <5>4
            <4> QED BY <4>2
        <3> QED BY <1>8, <3>1, <3>2
    <2>4. jobs' \in [Jobs -> JobType]
        BY <2>2, <2>3
    <2> QED BY <1>8, <2>4 DEF StartJob, JobProgress
<1>9. CASE UNCHANGED vars
    BY <1>9 DEF vars
<1> QED BY <1>1, <1>2, <1>3, <1>4, <1>5, <1>6, <1>7, <1>8, <1>9 DEF Next

(* Every state of the records' reconciler is well-typed. *)
THEOREM RecordTypeCorrect ==
    Spec => []TypeOK
<1>1. Init => TypeOK
    <2> SUFFICES ASSUME Init PROVE TypeOK
        OBVIOUS
    <2>1. record \in RecordType
        BY AbsentTyped DEF Init, RecordType
    <2>2. jobs \in [Jobs -> JobType]
        BY AbsentTyped DEF Init, JobType
    <2> QED BY <2>1, <2>2, AbsentTyped DEF Init, TypeOK
<1> QED BY <1>1, TypeOKStep, PTL DEF Spec
-----------------------------------------------------------------------------
(* What a pass knows *)

FirstWrites == {"writeExpired", "writeCompleted", "writeFailed", "writeRunning"}

Succeeded == \E j \in Jobs : jobs[j].state = "succeeded"

(* Copies that count as current are; a pass began with a copy that was not *)
(* terminal; what the cache shows of a success has happened, and a pass    *)
(* about to complete the record has seen one.                              *)
RecordInv ==
    /\ recordFresh => cRecord = record
    /\ copyFresh => copy = record
    /\ pc \in FirstWrites => copy.phase \notin Terminal
    /\ \A j \in Jobs : cJobs[j].state = "succeeded" => jobs[j].state = "succeeded"
    /\ pc = "writeCompleted" => Succeeded
    /\ record.phase = "Completed" => Succeeded

(* The Jobs move on, a success stays one. *)
LEMMA SuccessStays ==
    ASSUME TypeOK, StartJob \/ JobProgress
    PROVE  \A j \in Jobs : jobs[j].state = "succeeded" => jobs'[j].state = "succeeded"
<1> SUFFICES ASSUME NEW j \in Jobs, jobs[j].state = "succeeded"
             PROVE  jobs'[j].state = "succeeded"
    OBVIOUS
<1>0. jobs \in [Jobs -> JobType]
    BY DEF TypeOK
<1>1. CASE StartJob
    BY <1>0, <1>1 DEF StartJob, JobType
<1>2. CASE JobProgress
    <2>1. PICK k \in Jobs :
              \/ /\ jobs[k].state = "running"
                 /\ \/ jobs' = [jobs EXCEPT ![k].podFailed = TRUE]
                    \/ jobs' = [jobs EXCEPT ![k].state = "succeeded"]
                    \/ jobs' = [jobs EXCEPT ![k].state = "failed", ![k].podFailed = TRUE]
              \/ jobs' = [jobs EXCEPT ![k].collected = TRUE]
        BY <1>2, Zenon DEF JobProgress
    <2>2. CASE k # j
        BY <1>0, <2>1, <2>2
    <2>3. CASE k = j
        BY <1>0, <2>1, <2>3 DEF JobType
    <2> QED BY <2>2, <2>3
<1> QED BY <1>1, <1>2

LEMMA RecordInvStep ==
    TypeOK /\ RecordInv /\ [Next]_vars => RecordInv'
<1> SUFFICES ASSUME TypeOK, RecordInv, [Next]_vars PROVE RecordInv'
    OBVIOUS
<1> USE DEF RecordInv, objectVars, cacheVars, queueVars, passVars
<1>0. ASSUME UNCHANGED objectVars, UNCHANGED cacheVars, Idle PROVE RecordInv'
    BY <1>0 DEF Idle, FirstWrites, Succeeded
<1>1. CASE StartPass
    <2>1. CASE UNCHANGED passVars
        BY <1>1, <2>1 DEF StartPass, Succeeded
    <2>2. CASE /\ Followed(cRecord) /\ (cTask = "gone" \/ Listed # {})
               /\ pc' = FirstWrite /\ copy' = cRecord /\ copyFresh' = recordFresh
        <3>1. copy'.phase \notin Terminal
            BY <2>2 DEF Followed
        <3>2. pc' = "writeCompleted" => Succeeded
            <4>1. SUFFICES ASSUME FirstWrite = "writeCompleted" PROVE Succeeded
                BY <2>2
            <4>2. Listed # {} /\ cJobs[Latest].state = "succeeded"
                BY <2>2, <4>1, FirstWriteIsWrite
            <4>3. Latest \in Jobs
                BY <4>2, LatestListed DEF Listed
            <4> QED BY <4>2, <4>3 DEF Succeeded
        <3> QED BY <1>1, <2>2, <3>1, <3>2 DEF StartPass, Succeeded
    <2> QED BY <1>1, <2>1, <2>2 DEF StartPass
<1>2. CASE Write
    <2>1. UNCHANGED <<jobs, cRecord, cJobs>>
        BY <1>2 DEF Write
    <2>2. CASE copyFresh
        <3>1. /\ record' = Stored(Prepared(pc, copy))
              /\ recordFresh' => recordFresh /\ record' = record
              /\ NextWrite(pc, copy) \in {"idle", "writeExpiration", "writeVerification"}
              /\ record'.phase = "Completed" => pc = "writeCompleted" \/ copy.phase = "Completed"
            BY <1>2, <2>2, WrittenTyped DEF Write, TypeOK
        <3>2. record'.phase = "Completed" => Succeeded
            BY <2>2, <3>1
        <3>3. \/ Idle
              \/ pc' = NextWrite(pc, copy) /\ pc' # "idle" /\ copy' = record'
            BY <1>2, <2>2 DEF Write, Done, Requeue
        <3> QED BY <2>1, <2>2, <3>1, <3>2, <3>3 DEF Idle, FirstWrites, Succeeded
    <2>3. CASE ~copyFresh
        BY <1>0, <1>2, <2>3 DEF Write, Requeue
    <2> QED BY <2>2, <2>3
<1>3. CASE CallFails
    BY <1>0, <1>3 DEF CallFails, Requeue
<1>4. CASE SyncRecord \/ SyncTask \/ TimerFires \/ DeleteTask \/ RecreateTask
    BY <1>4 DEF SyncRecord, SyncTask, TimerFires, DeleteTask, RecreateTask, Succeeded
<1>5. CASE SyncJobs
    BY <1>5 DEF SyncJobs, Succeeded
<1>6. CASE Restart
    BY <1>6 DEF Restart, Idle, FirstWrites, Succeeded
<1>7. CASE DeleteRecord \/ TouchRecord
    <2>1. /\ record' = NoRecord \/ record' = record
          /\ ~recordFresh' /\ ~copyFresh' /\ UNCHANGED <<jobs, cJobs, pc, copy>>
        BY <1>7 DEF DeleteRecord, TouchRecord, OthersStore
    <2>2. record'.phase = "Completed" => record.phase = "Completed"
        <3>1. NoRecord.phase = ""
            BY DEF NoRecord
        <3> QED BY <2>1, <3>1
    <2>3. (Succeeded' <=> Succeeded) /\ (Terminal' = Terminal)
        BY <2>1 DEF Succeeded
    <2> QED BY <2>1, <2>2, <2>3
<1>8. CASE StartJob \/ JobProgress
    <2>1. Succeeded => Succeeded'
        BY <1>8, SuccessStays DEF Succeeded
    <2> QED BY <1>8, <2>1, SuccessStays DEF StartJob, JobProgress
<1>9. CASE UNCHANGED vars
    BY <1>9 DEF vars, Succeeded
<1> QED BY <1>1, <1>2, <1>3, <1>4, <1>5, <1>6, <1>7, <1>8, <1>9 DEF Next

LEMMA RecordInvariant ==
    Spec => []RecordInv
<1>1. Init => RecordInv
    BY DEF Init, RecordInv, NoRecord, FirstWrites
<1> QED BY <1>1, RecordTypeCorrect, RecordInvStep, PTL DEF Spec

(* checkBackupJobStatus completes a record only if a Job of its task has   *)
(* succeeded: however old the copies a pass decides from.                  *)
THEOREM CompletionJustified ==
    Spec => []CompletedHasSuccess
<1>1. RecordInv => CompletedHasSuccess
    BY DEF RecordInv, CompletedHasSuccess, Succeeded
<1> QED BY <1>1, RecordInvariant, PTL

(* No pass, however stale its copy, and no second pass after a lost reply  *)
(* takes a terminal phase back.                                            *)
THEOREM TerminalKept ==
    Spec => TerminalIsFinal
<1> DEFINE Final == record.phase \in Terminal /\ record'.exists => record'.phase = record.phase
<1>1. TypeOK /\ RecordInv /\ [Next]_vars => [Final]_vars
    <2> SUFFICES ASSUME TypeOK, RecordInv, Next PROVE Final
        OBVIOUS
    <2>1. CASE record' = record
        BY <2>1
    <2>2. CASE Write /\ copyFresh
        <3>1. record' = Stored(Prepared(pc, copy)) /\ pc \in Writes /\ copy = record
            BY <2>2 DEF Write, RecordInv
        <3>2. CASE pc \in FirstWrites
            BY <3>1, <3>2 DEF RecordInv
        <3>3. CASE pc \in {"writeExpiration", "writeVerification"}
            BY <3>1, <3>3, WrittenTyped DEF TypeOK
        <3> QED BY <3>1, <3>2, <3>3 DEF Writes, FirstWrites
    <2>3. CASE DeleteRecord
        BY <2>3 DEF DeleteRecord, OthersStore, NoRecord
    <2>4. record' = record \/ (Write /\ copyFresh) \/ DeleteRecord
        BY DEF Next, StartPass, Write, CallFails, SyncRecord, SyncTask, SyncJobs, TimerFires,
               Restart, TouchRecord, OthersStore, DeleteTask, RecreateTask, StartJob,
               JobProgress, objectVars
    <2> QED BY <2>1, <2>2, <2>3, <2>4
<1> QED BY <1>1, RecordTypeCorrect, RecordInvariant, PTL DEF Spec, TerminalIsFinal

(* Whatever stops a pass, the record is looked at again until it is        *)
(* terminal, expired or gone: polling does not break off.                  *)
THEOREM NotLostSightOf ==
    Spec => []PollingGoesOn
<1>1. Init => PollingGoesOn
    BY DEF Init, PollingGoesOn
<1>2. ASSUME TypeOK, RecordInv, PollingGoesOn, [Next]_vars PROVE PollingGoesOn'
    <2>1. CASE StartPass
        <3>1. UNCHANGED <<record, recordFresh>> /\ FirstWrite # "idle"
            BY <2>1, FirstWriteIsWrite DEF StartPass, objectVars, cacheVars
        <3>2. CASE ~Followed(cRecord)
            BY <1>2, <3>1, <3>2 DEF PollingGoesOn, RecordInv, Followed, Terminal
        <3>3. CASE timer' \/ pc' # "idle"
            BY <3>3 DEF PollingGoesOn
        <3> QED BY <2>1, <3>1, <3>2, <3>3 DEF StartPass
    <2>2. CASE Write
        <3>1. CASE copyFresh /\ pc = "writeExpired" /\ Done
            <4>1. record' = Stored(Prepared(pc, copy))
                BY <2>2, <3>1 DEF Write
            <4>2. Prepared("writeExpired", copy).phase = "Expired"
                BY <1>2 DEF Prepared, TypeOK, RecordType
            <4>3. record'.phase = "Expired"
                BY <1>2, <3>1, <4>1, <4>2 DEF Stored, Prepared, TypeOK, RecordType
            <4> QED BY <4>3 DEF PollingGoesOn
        <3>2. CASE timer' \/ pc' # "idle"
            BY <3>2 DEF PollingGoesOn
        <3> QED BY <2>2, <3>1, <3>2 DEF Write, Requeue
    <2>3. CASE CallFails
        BY <2>3 DEF CallFails, Requeue, PollingGoesOn
    <2>4. CASE SyncRecord \/ TimerFires \/ Restart
        BY <2>4 DEF SyncRecord, TimerFires, Restart, PollingGoesOn, Followed, objectVars
    <2>5. CASE DeleteRecord \/ TouchRecord
        BY <2>5 DEF DeleteRecord, TouchRecord, OthersStore, PollingGoesOn
    <2>6. CASE \/ SyncTask \/ SyncJobs \/ DeleteTask \/ RecreateTask \/ StartJob \/ JobProgress
               \/ UNCHANGED vars
        <3>1. UNCHANGED <<record, recordFresh, queued, timer, pc>>
            BY <2>6 DEF SyncTask, SyncJobs, DeleteTask, RecreateTask, StartJob, JobProgress,
                        objectVars, cacheVars, queueVars, passVars, vars
        <3> QED BY <1>2, <3>1 DEF PollingGoesOn, Followed, Terminal
    <2> QED BY <1>2, <2>1, <2>2, <2>3, <2>4, <2>5, <2>6 DEF Next
<1> QED BY <1>1, <1>2, RecordTypeCorrect, RecordInvariant, PTL DEF Spec
=============================================================================
