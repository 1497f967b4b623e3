# A verification of backup-operator

Models, model-checking runs and machine-checked proofs for the Kubernetes
operator in `src/`: a controller that turns `BackupTask` objects into CronJobs,
and keeps or prunes the `BackupRecord`s the backup agents write.

## 1. The system

| component | state | operations | hard behaviours |
|---|---|---|---|
| BackupTask controller, `internal/controller/backuptask_controller.go` | none of its own; it keeps a CronJob `backup-<task>`, a ConfigMap `<task>-targets`, the task's finalizer and status on the API server | `Reconcile`: add finalizer, write ConfigMap, create or update CronJob, write status, prune records; or finalize | every step is a separate call that may fail or lose its reply; reads come from caches that lag one by one; deletion and re-creation under one name; restarts |
| Retention policy, same file, 708-764 | none | list records from the cache, choose, delete one by one | unordered and stale lists, failing deletions, integer widths |
| Task status, same file, 567-654 | `status` of the task | compute it from the CronJob, write it under a resourceVersion | two copies of different ages, Jobs that fail, CronJobs others delete or suspend |
| Pod and ConfigMap, same file, 216-564, 656-706, 803-835 | none | build volumes, mounts, environment and ConfigMap from the specification | two builders that must agree; pods the API server refuses |
| BackupRecord controller, `controllers/backuprecord_controller.go` | `status` of a record | poll the task's Jobs, write up to three status updates per pass | terminal phase stored first; Jobs not watched. `cmd/main.go` does not start it |
| BackupRecord controller, `internal/controller/backuprecord_controller.go` | none | returns at once | none |
| older BackupTask controller, `controllers/backuptask_controller.go` | as the first | as the first, without the ConfigMap; other pods, with database sidecars | sidecars that never end, a port that may be nil. Not started |
| validation, `api/v1alpha1/backuptask_webhook.go` | none | `ValidateCreate`, `ValidateUpdate` | registered nowhere; would judge the operator's own updates too |
| webhook, `internal/webhook` | none | admits everything | none |
| manager, `cmd/main.go` | caches, work queue, worker | start, stop, leader election (off by default) | restart in the middle of a pass; two operators during a rollout |

The components share nothing but the API server. The controller's watches
(`SetupWithManager`) put a task's key in the work queue when the task or a
CronJob it owns changes; records and ConfigMaps are not watched. The CronJob
controller of Kubernetes starts the Jobs, an agent in each Job writes the records,
the garbage collector takes part in foreground deletions.

What makes each part correct:

- controller: no schedule without a live owner, no task forgotten, by any operator; what is acknowledged is in
  force; everything settles once nobody disturbs it, and stays so; every pass ends; a
  finalization touches only what belongs to the task that is going;
- retention: nothing too young goes, no more than the surplus goes, the surplus
  does go in the end;
- status: it never loses history and it catches up;
- pod: mounts and volumes agree, what is declared is what runs, and goes on running;
- admission: what validation once let in stays usable, the operator's whole-object
  writes undo nothing, deletions complete;
- records: a terminal phase is final, is reached, and is justified by a Job; until then
  the polling goes on.

## 2. Modules

| module | what it is |
|---|---|
| `BackupTaskReconcile` | the core: API server, caches, queue, one worker, everybody else |
| `MCBackupTaskReconcile` | its instances for TLC |
| `ScheduledTask` | what the operator promises about one task, abstractly |
| `BackupTaskRefinement` | the core implements the promise (refinement mapping) |
| `BackupTaskProofs` | theorems about the core |
| `BackupTaskRefinementProofs` | the refinement, proved |
| `OperatorReplicas` | several operators, each with its own caches and queue, over the same objects |
| `OperatorReplicasProofs` | theorems about them |
| `RecordRetention`, `MCRecordRetention` | the pruning pass and its filter |
| `RecordRetentionProofs` | theorems about them |
| `TaskStatus` | status and conditions |
| `TaskStatusProofs` | theorems about them |
| `BackupPod`, `MCBackupPod` | from specification to ConfigMap, pod and Jobs |
| `OlderPod` | the pod the older controller builds; `BackupPod` takes either |
| `BackupPodProofs` | what is stored is built of one specification, and which are ever written |
| `BackupRecordReconcile` | the BackupRecord controller of package `controllers` |
| `BackupRecordProofs` | theorems about it |
| `Admission`, `MCAdmission` | schema, validation methods, registered webhook, and all writers of a task |
| `AdmissionProofs` | theorems about them |

### The core and the code

`task`, `cronJob`, `configMap`, `records` are the stored objects; an object's
specification is its generation. `cTask`, `cCronJob`, `cRecords` are the informer
caches. `pc` names the call `Reconcile` makes next:

| action | code (`backuptask_controller.go`) |
|---|---|
| `StartReconcile` | 81-114: cached read, choice between nothing, finalizer, apply, finalize |
| `AddFinalizer` | 108-114 |
| `CreateConfigMap`, `UpdateConfigMap` | 115-130; then the cached read of CreateOrUpdate |
| `WriteCronJob` | 179-214; then the second cached read of the task, 569-572 |
| `WriteStatus` | 567-618, then the list of 713-721 and the choice of 740-764 |
| `DeleteRecord`, `EndPass` | 726-732 and 794-798; 171-176 |
| `DeleteCronJob` | 770-782, then the list of 784-792 |
| `RemoveFinalizer` | 99-104 |
| `CallFails`, and the branch `Disrupt /\ Fail` of each call | the error returns: refused, or done with its reply lost |

One step is one writing call together with the cached reads that follow it: those
reads see another object than the one just written, so no interleaving is lost.
A resourceVersion is one bit per copy ("mine is the stored one"), which is what an
optimistic update tests; a write that changes nothing keeps it, as the API server
does. A nil `Recorder` panics in every failing pass (133-137); controller-runtime
recovers the panic as an error, so the model only sees the back-off.

`ThirdParty` switches deletions of the CronJob and the ConfigMap by others.
`ObservedGenerationApplied` and the refinement are claims about the controller
alone and are checked without them, `Converges` with them.

`OperatorReplicas` is the same `Reconcile` in any number of processes. To keep it
small it leaves out what the core has shown for one: Jobs and records, single
failed calls (a stop may come between any two), foreground deletion, and the
deletion of CronJob and ConfigMap by others. A copy's currency is a bit in each
operator's cache and pass, and a write by anybody clears it everywhere
(`StoreTask`, `StoreCronJob`); `Conflict` is the refused update. The ConfigMap is
updated without a resourceVersion (126) and the CronJob deleted by name (779), so
those two writes of a stale operator do take effect. A deposed leader in the middle
of a pass is a running operator like another.

`RecordRetention` counts time in ticks, `Day` of them a day, and wraps durations at
`DurationLimit` as the int64 does. In the run `Retention` a day is one tick and no
policy reaches the limit of three; in `AgeOverflow` a day is two ticks and the limit
nine, so that four days fit and five wrap, as 106752 days do, within reach of the
clock. The policy in force is that
of the pass's copy of the task (`policy`), which lags behind `cRetention`, and that
behind `retention`.

`BackupPod` picks the controller in its initial state. The older one differs in its
builders and has no ConfigMap; the rest of it (126-281 and 592-785) is word for word
the text of the newer one, and the other modules stand for both. `Panics` is the
port followed at 547 and 574 without a test. Volumes, containers and mounts are lists in
the code and functions here, from what an entry is there for (a fixed volume, path 2 of
target 1) to the entry: the API server does not look at the order, and an entry that
repeats another one is still seen (`IsInjective`). `ServerAccepts` are the rules of the
API server that these builders can break: names that repeat or are no DNS label
(`NoLabel` are the claims whose `pvc-<claim>`, 345, has a dot or more than 63
characters), mount paths that repeat, mounts without a volume, a restart policy no Job
may have. `job` is the pod of the Job in progress: `ForbidConcurrent` (223) lets no
other start before it ends.

`Admission` starts as the program runs today: the schema checks, the registered
webhook admits. Its action `Register` puts the methods of
`api/v1alpha1/backuptask_webhook.go` in force, as `SetupWebhookWithManager`
(403) is there to do; no code calls it, and the controller-runtime in `go.mod` would
want the methods in another form. `checked` marks a task created after that. A
configuration block is the set of its required fields that are filled.

## 3. Runs

| run | checks | bounds |
|---|---|---|
| `TaskSafety` | `TypeOK`, `OwnershipInv`, `CronJobHasLiveOwner`, `ObservedGenerationApplied`, `NeverForgotten`, `ImplementsPromise`, `FinalizationSparesLiveTask`, `SettledStays`, `PassEnds` | 2 incarnations, 2 generations, 1 Job, 1 record, 1 disruption |
| `TaskLiveness` | `Converges` | 2 incarnations, 2 generations, 1 Job, 1 disruption, third parties |
| `Replicas` | `TypeOK`, `NeverForgotten`, `FinalizerKept`, `SettledStays`, `Converges` | 2 operators, 2 incarnations, 3 writes by users or stops of an operator |
| `Retention` | `TypeOK`, `CurrentPassKeepsCount`, `FilterRightWhenSorted`, `DeletionsJustified`, `RetentionSettles` | 3 records, 3 ticks, 5 policies (counts 1, 0 and -1, days, both), 2 edits |
| `Status` | `TypeOK`, `ScheduleNeverForgotten`, `StatusCatchesUp` | 3 Jobs, 2 edits, 1 lost CronJob |
| `Record` | `TypeOK`, `CompletedHasSuccess`, `PollingGoesOn`, `TerminalIsFinal`, `FollowsJobs` | 2 Jobs, 1 disruption |
| `Admission` | `TypeOK`, `CheckedIsUsable`, `EditsSurvive`, `DeletionCompletes` | 21 specifications: one in order, and 20 that differ from it in one respect, some of them in order too; 3 writes by users |
| `Pod` | `TypeOK`, `MountsBacked`, `WrittenExactly`, `DeclaredPodRuns`, `BackupsGoOn` | 10 specifications of up to 2 targets, each with something the builders, the server or a Job trips over; both controllers; 2 edits |

Why the bounds are enough: the hazards need two actors and at most one accident.
Two incarnations show everything an earlier one can do to a later one, and uids
are compared only for equality; two generations separate "old" from "new"; one
disruption interrupts any pass at any call, and the pass that follows meets what it
left. Two operators are enough for one to be behind the other. Their three
disturbances are creations, edits, deletions and stops in any mix: a task created,
deleted and created again, or created and deleted with an edit or a stop between.
Every safety property of these runs is proved for all bounds (section 4). Three
records are a list with a first, a middle and a last.

What some properties leave open, because the code does: `Converges` asks of a task
that is gone only that its CronJob is gone too, since the ConfigMap has no owner
(806) and stays; `BackupsGoOn` excuses a Job with a sidecar and takes it that one
without ends; `DeclaredPodRuns` excuses specifications that cannot be written, and
`WrittenExactly` says which those are; `CompletedHasSuccess` asks for a succeeded Job
of the task, not for the record's own.

Deadlock is not checked where the system may rest: no task, or all bounds used up.

Runs that end in a violation (`findings` in `PROJECT.json` quotes what each
contradicts):

| run | what happens |
|---|---|
| `RecordsLeft` | the finalizer goes while records of the task remain |
| `OverPruning` | two passes over one stale list delete different records |
| `AgeOverflow` | days that wrap in a duration: a new backup goes as expired |
| `PodClaims` | two paths in one claim: refused for ever, old pod with new targets |

Seen while modelling, and kept in the models as the code has it, but without a
run of their own (most are hazards in `PROJECT.json`): the list to prune is never
sorted, against the comment at 744, so the newest record can be the one that goes; a
negative `maxBackupCount` panics in every pass and stops pruning by age too; the
older controller's sidecars keep its Jobs from ending, and it mounts neither of its
Secret volumes; a podTemplate loses its volumes but keeps the init containers that
mount them; `config/rbac/role.yaml` lacks the right to write ConfigMaps, which the
marker at 71 names; a record chosen by both limits is subtracted
twice from `backupHistoryCount`, which is never stored anyway; the phase is
`Completed` after a failed Job and `lastSuccessfulTime` is never written;
`lastTransitionTime` moves in every pass; a later run's Job decides a record, and
one failed pod of a Job that is being retried fails it; the completion time of a
record is set on its copy and not stored, and a pass cut after its first write leaves
a completed record without expiration time; the default database port is set on the
object under validation and lost; two database targets may share one
environment prefix; an empty `backupCmd` with an image is run as it is.

### Fairness

The worker continues a pass and takes a waiting key (`WF(Worker)`): a controller
has a running worker and each call returns. Watches deliver (`SyncTask`,
`SyncCronJob`), timers fire. The garbage collector does its part of a foreground
deletion, and collects a CronJob whose owner is gone, which is Kubernetes' promise.
Nothing is assumed of users, Jobs or disruptions. In `OperatorReplicas` every
operator that runs works on, and some operator starts when none runs: that is the
Deployment. None is asked to stay: an operator may stop at any of the bounded
disturbances. `RetentionSettles` needs that a deletion tried without end is once
carried out (a strong fairness: every pass that lists the surplus tries again), that
passes come (the core's `Converges` rests on the same RequeueAfter), and that the
caches catch up. `BackupsGoOn` needs Jobs without sidecars to end and scheduled times
to come.
`TaskStatus` and `BackupPod` take from the core that a live task is always due
again: each pass ends with a RequeueAfter or a back-off. So does `Admission`, whose
`DeletionCompletes` needs the two finalizer updates and the watch; an update that
validation refuses is not possible there, and fairness does not help it.

## 4. Proofs

`BackupTaskProofs` proves, from `ConstantsAssumption` alone (which only types the
constants), for every number of incarnations, generations, records, Jobs and
disruptions:

- `TypeCorrect`: `Spec => []TypeOK`;
- `OwnershipInvariant`: `Spec => []OwnershipInv`;
- `CronJobOwned`: `Spec => []CronJobHasLiveOwner`;
- `LiveTaskSpared`: `Spec => FinalizationSparesLiveTask`;
- `TaskNeverForgotten`: `Spec => []NeverForgotten`;
- `SettledKept`: `Spec => SettledStays`;
- `PassesEnd`: `Spec => PassEnds`.

`CronJobHasLiveOwner` is not inductive: whether the CronJob about to be written
has an owner depends on what the pass knows, and that on what the cache showed.
`OwnershipInv` adds the chain. `CacheIsPast`: a cached task with finalizer and
without deletion mark is the stored incarnation, which still has the finalizer.
`PassKnowsTask`: an applying pass therefore works for the incarnation that holds
the finalizer, a finalizing pass only for one already marked, so the finalizer it
can release (under a current resourceVersion) is that one's; and after
`deleteCronJob` nobody but the worker, which is busy, would create a CronJob.
`UidsBounded`: a new incarnation differs from all that caches and passes remember.
The proof goes by action: `IdleTyped`, `StoreTaskTyped`, ... give the types once;
`OwnershipIdle` ends any pass, `CacheStaysPast` covers writes to the task,
`OwnershipWorker`, `OwnershipManager`, `OwnershipOthers` put them together.
`LiveTaskSpared` needs `SeenInv` besides: a CronJob comes from a pass, a pass from
what the cache showed, and Jobs and records from a CronJob. So an incarnation the
cache has not shown has none of them, and a finalization that began for an earlier
one finds no record of the present one under their common name.

The last three are what `Converges` is made of, as far as it can be said without
fairness: somebody always comes back for the task, each time for boundedly many calls,
and what is once right is not made wrong again. Left to TLC is that the passes which
come do put it right.
`NeverForgotten` is preserved because a pass ends by `Requeue` or `Fail`, which leave
the key behind, or by `Done`, after which the task is gone or its deletion still to be seen.
`SettledKept` rests on `OwnershipInv` and `HoldInvariant` (the garbage collector's
finalizer comes with a deletion alone): in `CaughtUp` the cache shows the stored version and a
pass works on it, so a write to ConfigMap or CronJob writes what is there
(`AppliedAgain`, `AppliedStays`); a finalizing pass would need a marked task, and when the
task is gone no pass has one to write to (`GoneStaysGone`). `TaskWrites` lists the ways
the stored task changes. For `PassesEnd`, `CallsLeft` is a variant: `TodoBounded` keeps the
records to delete within `Records`, `CallsCounted` and `OneFewer` do the arithmetic,
`PassUndisturbed` says that nobody but the worker adds a call.

`BackupTaskRefinementProofs` proves, when nobody else deletes CronJob and ConfigMap
(`~ThirdParty`; otherwise both statements are false):

- `AcknowledgedIsApplied`: `Spec => []ObservedGenerationApplied`;
- `PromiseKept`: `Spec => ImplementsPromise`, the refinement.

`GenerationInv` follows a generation along its way, from the stored task to the cached
one, to the pass, to ConfigMap and CronJob, and last to `observedGeneration`: no
place on it is ahead of the one before (`GenerationsGrow`), and what a pass is about
to write is not older than what it replaces (`PassMovesForward`: it read the cache
after every earlier pass did). `PromiseWorker` and `PromiseOthers` map each action to
a step of `ScheduledTask`: a CronJob write is `Apply` or nothing, a status write
`Acknowledge` or nothing, every loss of the task `Vanish`, every loss of the CronJob
`Withdraw`; a step that moves caches, queue or pass is a stutter.

`OperatorReplicasProofs` proves, from `ReplicasAssumption`, for any number of
operators:

- `ReplicasTypeCorrect`: `Spec => []TypeOK`, which includes that a pass is in a
  running operator and began on a task that was there;
- `NobodyForgets`: `Spec => []NeverForgotten`;
- `FinalizerReleasedLate`: `Spec => FinalizerKept`;
- `ReplicasSettledKept`: `Spec => SettledStays`, with starts and stops of operators among
  the steps that take nothing back.

The invariant `ReplicasInv` adds two parts. `CopiesRight`: a cached
copy that counts as current is the stored task, and a pass with a current copy works
on a task that is there, a finalizing one on a task that is marked; so an operator
that takes the finalizer off under a current copy takes it off a marked task.
`TaskSound`: only a task with a finalizer stays when it is marked, only a task that is
there has one. `NeverForgotten` is preserved because every way out of a pass leaves the key
behind (`Again`) and every write that does not is an event to come for everybody
whose copy it makes old. `InvWorker` goes through the actions of one operator,
`PassAdvanced` is the step all its calls share.
`ReplicasSettledKept` must look at the others too: `WorkerIsAlone` says that a step of one
operator changes no cache and no pass but its own, except that copies become old, so each
that was up to date is so after it; `PassGoesOn`, `AppliedAgain` and `GoneAgain` are the
writes of an operator that is up to date itself.

`RecordRetentionProofs` proves `RetentionTypeCorrect` and

- `Justification`: when the days of every policy fit a duration (`AllFit`), a record
  is deleted only because it is past its days or because the pass had a longer list
  than `maxBackupCount`. The invariant says so of everything a pass has still to
  delete: policy and list are the pass's own, and time only adds to an age. Without
  `AllFit` it is false: `AgeOverflow` is the counterexample;
- `CountKept`: `Spec => []CurrentPassKeepsCount`. The invariant `KeptInv` keeps a
  witness through the pass: a set of listed records, as many as the count asks for or
  all of them, each still stored or by now too old, and none of them in the rest of
  the loop unless it is too old. `FirstKept` makes the first one: positions number the
  list, so the records not beyond the count are as many as the count;
- `FilterRight`: `Spec => []FilterRightWhenSorted`, under `AllFit`. `NoMoreKept` is the
  other half of the counting.

`SurplusNeedsExcess` and `ExpiredExactly` state what the two halves of the filter
choose, `WrapExact` where the signed arithmetic is exact, `Limits` that only written
policies are ever in force, `ReportKeepsAges` that a report changes the age of no
record that is stored, cached or listed.

`TaskStatusProofs` proves `StatusTypeCorrect` and `ScheduleKept`:
`Spec => ScheduleNeverForgotten`. In `StatusInv` the times are ordered along their way
(`TimesOrdered`): the status is not ahead of the CronJob's answer the pass has seen,
unless that has no history, nor of the CronJob or the clock, and a copy under a current
resourceVersion is the stored status.

`BackupRecordProofs` proves `RecordTypeCorrect`, `CompletionJustified`
(`CompletedHasSuccess`), `TerminalKept` (`TerminalIsFinal`) and `NotLostSightOf`
(`PollingGoesOn`: the polling does not break off, which `FollowsJobs` lives on). `RecordInv` says that
a copy under a current resourceVersion is the stored record, that the first write of a
pass starts from a phase that is not terminal, and that a success in the cache is one
on the API server (a Job that has succeeded stays so). `LatestListed` shows that the
Job which decides is one of those listed.

`BackupPodProofs` proves, for any set of specifications:

- `PodTypeCorrect`: the ConfigMap is that of one specification as a whole, and CronJob and
  Jobs have the pod built of one;
- `MountsAlwaysBacked`: `Spec => []MountsBacked`, for both controllers;
- `AcceptedExactly`: `Spec => []WrittenExactly`, for both controllers. `Writable` is what
  the builders and `ServerAccepts` come to, `Fits` says it of the specification: claims
  that do not repeat and make a volume's name, paths that do not repeat and are not the
  operator's (in the older controller: places, and databases one of a kind with a port),
  a template that suits a Job. This is the rule the schema and the validation methods
  would have to enforce, and do not. It is exact for the rules `ServerAccepts` models;
- `RepeatedClaimNeverRuns`: a specification with two paths in one claim never gets its pod
  into the CronJob or a Job, in either controller, for as long as it is declared.

`VolumesBuilt`, `MountsBuilt` and `OlderMountsBuilt` say what the builders return;
`VolumesAccepted`, `PathsAccepted`, `PlacesAccepted`, `ContainersAccepted` and
`TemplateAccepted` translate one rule of the API server each, and `InternalAccepted` and
`OlderAccepted` put them together. `PodInv` adds to the types that a pod in force was
accepted and that a pass past its start has a specification. The assumptions are
`PodAssumption` (paths are counted by numbers) and `ClaimAssumption`: a claim's volume is
called `pvc-<claim>` (345), so never like a fixed one, and the fixed ones are DNS labels.

`AdmissionProofs` proves, from `AdmissionAssumption` (types of ports and flags, and
that an absent port is no number), `AdmissionTypeCorrect` and `CheckedUsable`:
`Spec => []CheckedIsUsable` for any set of specifications. The invariant
`AdmissionInv` says of the stored task and of the cached one that they came through
the schema and, if marked, through validation: the cached one counts because the
operator writes it back. `ValidTarget` and `ValidSpec` say what an empty list of
errors guarantees. It also proves `EditsKept`: `Spec => EditsSurvive`, from the fact that
a copy under a current resourceVersion is the stored object.

Only model-checked: all liveness, since fairness is beyond the prover. Every invariant and
every action property that a passing run checks is proved for every value of the
constants, `Justification` and `FilterRight` under `AllFit`, `AcknowledgedIsApplied` and
`PromiseKept` without third parties. The four violations are counterexamples and need no
proof.

## 5. Not modelled

- calls that take effect after their pass has given up, and a restart whose first
  list is older than the caches before it;
- in the pod: resources, affinity, service account, pull policy and sub-paths, which
  are copied and which no property tells apart;
- the rest of `controllers/backuptask_controller.go` (126-281 and 592-785), which is the
  text of the newer controller: the other modules stand for both;
- the BackupRecord controller of `internal/controller`, which does nothing;
- the right to write ConfigMaps that `config/rbac/role.yaml` lacks: with it missing,
  every pass fails at the first call (`CallFails` without end);
- set-up in `cmd/main.go` (flags, TLS, metrics, probes), generated code, manifests,
  scaffolded tests.

## 6. Plan

1. Calls applied late: a request that reaches the API server after its pass has
   failed, in the core and with several operators.
2. A composition of `BackupRecordReconcile` with `RecordRetention`: expiration and
   pruning of the same records.
3. What several operators promise together, abstractly: weaker than `ScheduledTask`, since
   a stale one may withdraw a CronJob or create one for a task that is gone; and the proof
   that `OperatorReplicas` implements it.
4. For `TaskStatus`, `BackupPod` and `RecordRetention` what `SettledStays` says of the core:
   which part of their liveness holds step by step.
