# KubeTemplater: a TLA+ verification project

This directory models the KubeTemplater operator in TLA+, checks the models with
TLC on small instances and proves their main safety properties with TLAPS for
every value of the constants. `PROJECT.json` is the machine-readable index: which
definition models which lines, which run checks which property, which hazards of
the code are covered.

## The system and its parts

A user creates a `KubeTemplate`: a list of manifests. The admission webhook checks
it against the `KubeTemplatePolicy` of its namespace. The `KubeTemplateReconciler`
marks it `Queued` and puts its name in an in-memory priority queue. A pool of
workers takes names out of the queue, checks each manifest against the policy and
applies it with server-side apply; failures are retried with exponential backoff,
in a bounded number of cycles, after which the template is `Paused` until a user
sets an annotation. Completed templates are to be reconciled periodically against
drift. Two controllers keep the policy cache up to date; another holds a finalizer
on namespaces; a certificate manager and a secret watcher serve the webhook's TLS.

| Part | Source (under `src/`) | Modelled by |
|---|---|---|
| work queue | `internal/queue/work_queue.go` | `WorkItems`, `RetryQueue`, `WorkQueue` |
| workers | `internal/worker/template_processor.go` | `TemplateLifecycle`, `Validation` |
| KubeTemplate reconciler | `internal/controller/kubetemplater.io/kubetemplate_controller.go` | `TemplateStatus` (abstract), `TemplateLifecycle` |
| API types | `api/kubetemplater.io/v1alpha1/*_types.go` | partly, in `TemplateLifecycle`, `PolicyCache` and `Validation` |
| wiring | `cmd/main.go` | assumptions on the constants, `Init` |
| policy cache | `internal/cache/policy_cache.go` | `PolicyCache`; its interface (`GetPolicy`) in `TemplateLifecycle` |
| policy controllers | `internal/controller/kubetemplater.io/{policy_cache,kubetemplatepolicy}_controller.go` | `PolicyCache` |
| webhook | `internal/webhook/kubetemplate_webhook.go` | `Validation` (what is allowed), `Admission` (requests at work) |
| certificate manager | `internal/cert/manager.go` | `CARotation` (abstract), `CertManager` |
| certificate watcher | `internal/cert/secret_watcher.go` | `WebhookCerts`, composed with the manager |
| namespace finalizer | `internal/controller/namespace_controller.go` | `NamespaceCleanup`, composed with `Admission` |
| resource watcher | `internal/controller/kubetemplater.io/resource_watcher_controller.go` | not modelled: its registration in `main` is commented out |

## Modules

`WorkItems` holds the work item and what the queue's operations do to one item:
creation, priority raise, the retry counters of `Requeue`, and the worker's test of
the cycle limit. `RetryCycle` saturates one above `MaxRetryCycles`, since the code
only compares it with that number.

`RetryQueue` is what the queue promises its clients: a set of queued items, the
index by name, the items workers hold, the `processingItems` gauge. A `*WorkItem`
pointer is an element of `Ids`, so that two items of the same name are two things,
as they are in the code. Every operation is atomic and any queued item may be
returned by `Dequeue`.

`WorkQueue` is the code's queue: the mutex, the condition variable, the `AfterFunc`
timers, `ScheduledAt` and the clock, the order of the heap and `Shutdown`. `Dequeue`
is five actions, because `cond.Wait` gives up the lock and the timer's callback
signals without it. The product of `Requeue`'s backoff wraps around at `DurationLimit`,
as a `time.Duration` does at 2^63. `Q == INSTANCE RetryQueue` is the refinement mapping
(the identity on the shared variables).

`TemplateStatus` is what may happen to a KubeTemplate object: users create, edit, annotate
and delete it, the operator changes its status, and each change is one step on the object
as it is at that moment. `TemplateLifecycle` implements it (`S == INSTANCE TemplateStatus`,
the identity on `api`) although workers and reconciler compute their writes from copies.

`TemplateLifecycle` composes the queue (`Q == INSTANCE RetryQueue`) with the workers
(`Start`, `processItem`, `updateStatusWithRetry`), the reconciler (`Reconcile`,
`applyTemplateResources`, the event predicate), the API server with optimistic
concurrency, the informer cache that lags behind it, users, failing calls and
restarts. A worker makes one API call per action. Its local variables are `reg`: the
spec of its `kubeTemplate` (replaced by every re-fetch), the templates the loop
ranges over (fixed when the loop starts), the index, the retries of the status
update and `specHash`. The reconciler's are `creg`. How the data is abstracted:

- A spec is a version number, its hash is the version hashed; a spec has `Size`
  templates, and `verdict[v][k]` says what the policy and the API server make of
  template `k`: `ok`, `reject` (not allowed by kind, namespace or CEL), `skip` (does
  not unmarshal), `error` (refused), `replace` (invalid as an update, with
  `replace: true`). Every assignment of the verdicts considered is an initial state.
- A resource is absent, holds a version, or is `Foreign`: another field manager
  changed and owns fields of it (of its spec or data, where it has one). An apply
  without `ForceOwnership` conflicts with that; the drift correction, which forces,
  does not. Resources in `Bare` have neither spec nor data, so `hasDrift` is false for
  them. Templates in `Unplaced` leave out the namespace: the worker fills it in, the
  dry run of the drift correction fails without it.
- A resource is also marked or not: the labels and the owner reference that the worker
  adds (`Labelled`) and the drift correction, which applies the raw template, does not
  (`Raw`). Both use the field manager `kubetemplater`, so an apply removes the marks it
  does not mention.
- `LastReconcileTime` is never, recent (within half an interval) or old.
- A read of an object and the write of what was read are one step. If another write
  comes between them the write conflicts, and so it does when both come after that
  write and the cache has not seen it.
- `unseen[n]` is the set of kinds of changes of `n` the informer has not delivered.
  `CacheSync` delivers them together; delivery of an intermediate version is the
  behaviour in which `CacheSync` happens before the next change. A status write that
  changes nothing counts as a new version, as `ProcessedAt` and its like do change.
- `gaveUp` is a history variable: names a worker dropped because it could not write
  `Paused`.
- Get, dry run and apply of one resource in `applyTemplateResources` are one step:
  the other writers of a resource between them could only make the forced apply come
  later or earlier relative to their own.

`PolicyCache` is the cache of one process with its readers (webhook requests and
workers) and, in the leader, the two controllers that keep it up to date. `api` is the
API server and `store` the informer that all reads of the manager's client go to.
`Get` is one step on a hit and otherwise three: the lookup, the `List` without the
lock, the store. Each `Reconcile` is two steps, `Fetch` and what it does with the
policy. The TTL is the action `Expire`. The entry's field `from` is a history of who
stored it. When a policy is gone, `PolicyCacheReconcile` deletes the entry of
`NoNamespace`, as the code does with the zero value of the policy.

`CARotation` is what the certificate manager promises about its CAs: at most two are
stored, certificates are signed by and webhooks told to trust only a stored one, and a
CA goes only after it expired. `CertManager` is the code: `ensureCertificate` with
`ensureCA`, one action per API call. Every call may fail, having taken effect or not,
and the leader may die before it (`FaultyCalls`, `MaxFaults`). Instead of a clock, each
CA and certificate has the time it has left; identities of CAs nothing refers to are
used again, so that the renewals go on for ever. `Rotation == INSTANCE CARotation WITH
stored <- {ca, new} \ {None}, signer <- the issuer of the stored certificate` is the
refinement mapping. A pass, the start of a new leader and the restart of a watch take no
time on the scale of the validity periods.

`WebhookCerts` puts a watcher in every pod next to the manager of the leader: the initial
load and its timeout, the watch as a queue of versions of the secret, closed channels
that lose what they had not delivered, loading, `IsReady`, `GetCertificate`. A process
that ends takes its watcher with it, and another pod may lead next. `cert` and
`lastValidCert` are always equal and are one variable.

`Validation` holds the webhook's checks and the worker's, as operators over a policy and
the templates. An object is its kind, its namespace and the value under each field path
(a string, a number, null, missing, or behind something that is not a map); a CEL
expression is the set of things for which it is true, and may be too costly for the
webhook; a pattern is the set of strings it matches.

`Admission` lets handlers validate requests at the same time. Each access to the map
`regexCache`, which has no lock, is a step; while one handler writes, the accesses of
another may lose an entry or end the process (`Fatal`), as Go leaves that open.
`Cache.Get` returns any policy or an error. A worker processes what was stored under any
policy.

`NamespaceCleanup` adds `NamespaceReconciler` on the namespace of these KubeTemplates:
`Get`, `List`, each `Delete` and the two `Update`s are steps, reads go to informers that
lag, an update with an old version conflicts. The API server refuses to create in a
namespace that is being deleted when the request arrives, so one that is in the webhook
at that time is still stored.

The modules `MC...` instantiate these for TLC; the queue's add a budget of `Enqueue`
calls, `MCWebhookCerts` fixes the first leader, and `MCTemplateLifecycle` and
`MCAdmission` restrict what happens together to a few stories (below). Definitions commented as mutants are
faulty variants of the definition below them; a property is meant to fail when one
is put in its place. No specification uses them.

## Runs

Passing runs (TLC explores every reachable state of the instance):

| Run | Checks | Shows |
|---|---|---|
| `retry_queue` | `MapPointsIntoHeap`, `SingleOwner`, `GaugeExact`, `RetryBudget`, `Drains` | index, ownership and gauge stay right although a name can be queued twice; retries end |
| `work_queue` | `TypeOK`, `FreshNeverStranded`, `NoWaitAfterShutdown`, `ImplementsRetryQueue`, `BackoffBounded`, `FreshEventuallyTaken`, `ShutdownStopsWorkers` | the detailed queue implements the abstract one; no lost wakeup for new work; new work is handed out; every retry waits between the initial and the maximal delay; `Shutdown` leaves nobody waiting and ends every worker |
| `lifecycle_safety` | `TypeOK`, `UnfinishedOwned`, `FailedOwnedUntilRestart`, `ImplementsStatus`, `HashedIsRun` | a new, Queued or Processing template always has somebody who will deal with it, through racing edits, deletion and re-creation, conflicts, a failing call and a restart; until the process restarts, so has a Failed one; no write of the operator brings back an older spec, annotation or status, or a deleted object; a hash is recorded of what a worker went through |
| `lifecycle_progress` | `Converges`, `ResumeHonoured`, `Finishes` | a template that never fails ends Completed with its last spec applied and hashed, whatever edits race the worker; the resume annotation works; every template ends Completed or Paused |
| `lifecycle_drift` | `DriftRepaired`, `UsesQueue` | a status that says Completed for the current spec is right in the end: periodic reconciliation, once started, repairs what others deleted or changed, except what it cannot see or apply (`Unrepaired`), and leaves no older spec and, where nobody interferes, no unmarked resource behind, although it races edits and workers; workers and reconciler use the queue as its specification allows |
| `policy_cache` | `TypeOK`, `WatchedEntriesCurrent`, `EventuallyRight` | edits of policies reach the leader's cache although two controllers store what they read in any order; once policies are left alone, `Get` gives right answers in every process |
| `webhook_certs` | `WatcherTypeOK`, `TrustedUndisturbed`, `SignerKept`, `PodsCaughtUp`, `HandshakesUndisturbed`, `ImplementsRotation`, `HandshakesRecover`, `ServesOnlyNewer` | the manager implements `CARotation` whatever fails; undisturbed, neither it nor a pod that has caught up leaves a gap through renewals of certificate and CA; no watcher misses a change of the secret; a pod never goes back to an older certificate; after faults the API server accepts every pod again |
| `admission` | `CleanupTypeOK`, `VerdictsRight`, `AdmittedIsApplied`, `NamespaceTended`, `NeverAddedLate`, `ListedAreDeleted`, `NamespaceGoes` | each request gets the verdict of its own policy and patterns although requests share a map; the worker never contradicts the webhook under the same policy; a namespace that needs Reconcile is never forgotten; the finalizer is not added late, not removed before the listed templates are deleted, and does go |

Runs that are expected to fail. Each states what a comment or document of the
repository says; the counterexample is a behaviour of the code. The quotations are in
`PROJECT.json` under `findings`.

| Run | Property | What happens |
|---|---|---|
| `work_queue_timer` | `DueRetryTaken` | the timer signals before the worker waits; the worker sleeps on |
| `two_workers` | `EventuallyInSync` | an Enqueue while the item is held gives two workers the same template: the older spec is applied last |
| `failed_restart` | `FailedOwned` | a restart forgets the retries of a Failed template |
| `no_drift_check` | `EventuallyInSync` | nothing starts periodic reconciliation of a template the worker completes |

### Bounds

`MaxRetries = MaxRetryCycles = 1` (2 retries in `work_queue`) makes every branch of
`Requeue` and of the worker's test happen: a backoff, a new cycle, the last failure.
Two workers are needed for two owners of one name, and two suffice for the races the
properties are about; the queue runs have two names, the lifecycle runs one, as
templates meet only in the queue. The pools `Ids` are large enough that `Enqueue` never
lacks a pointer in the lifecycle runs (checked separately: in each of the instances the reconciler never
waits for a free pointer). `MaxEdits`, `MaxResumes`, `MaxDeletes`, `MaxCrashes`,
`MaxFaults`, `MaxTampers` bound what users and the environment do; `Create` counts as
an edit. The clock of `WorkQueue` stops at `MaxTime`, late enough for a full cooldown
after a retry. There `MaxRetryDelay` is reached by the cooldown and by the second
retry, but no product exceeds it: that the cap works, and for which delays the product
fits, is left to the proof (`DelaysBounded`), as more retries take TLC too long. `policy_cache` has
two policies, two namespaces, one reader and two changes: enough for an edit, a move, a
deletion or a second claim while a reader and both controllers are between their steps.
Symmetry (of the workers) is used in `lifecycle_safety` only, whose properties are
invariants. In the passing lifecycle runs `Enqueue` takes the least free pointer, as
pointers are interchangeable. Deadlock is checked in
`webhook_certs`, where time goes on for ever; elsewhere, when users stop and the bounds
are used up, the operator has nothing left to do.

Stories: where all that can happen together is too much for TLC, the MC module lets a
step happen only if the result is still part of one of a few scenarios; each scenario is
explored completely. `lifecycle_safety`: templates that may fail, with edits and two
workers, undisturbed; templates that do not fail, with one worker busy at a time,
that are edited, deleted and created anew while a call fails and the process restarts;
and templates that fail and are edited, with one worker busy at a time, while another
call fails.
`lifecycle_progress`: templates that are replaced are edited all the time; one that fails is created once, paused and resumed.
`lifecycle_drift`: upgraded templates that others tamper with while a call fails;
upgraded templates that are edited, where the edit may fail; and upgraded templates that
are edited, and put back before Reconcile has recorded that, so that a worker applies the
edit while the status still tells of the spec before it. They have a plain resource, one in `Bare` and one in
`Unplaced`. `admission`: one
request of any kind (every rule and field validation with every value) processed under
any policy; two concurrent requests with patterns; the life of the namespace with
requests that comply. Fair actions are never cut off inside the story a liveness
property speaks of.

`webhook_certs` has no stories: two pods, three CAs (current, next, and the one a
certificate may still be from) and two faults.

What the passing liveness runs leave out, and why. `Converges` has one worker, because
two can hold two items of one template (`two_workers`), and speaks of templates that
never fail: an edit that Reconcile reads together with the phase Failed and an empty
hash is left to the retry, which may already be running with the older spec.
`lifecycle_drift` starts from objects that an older release completed, because only for
those does anything start periodic reconciliation (`no_drift_check`), and has no
`replace` (nor, for templates that are tampered with, `error`): a resource with `replace`
that is foreign cannot be repaired by the drift correction, whose dry run is refused.
Its edits come after the first Reconcile has recorded a hash. `DriftRepaired` speaks of
templates whose status says that the current spec was applied (`RecordedApplied`) and
that no worker dropped (`gaveUp`), and excepts what others do to resources in `Bare` and
`Unplaced`. That the marks survive is said of resources nobody else changed, as a
correction removes them. `EventuallyInSync`, the documents' wider promise, is checked in the
violation runs only. `Applied` asks only for
the templates that the policy and the API server grant, as `processItem` completes a
template with rejected or unreadable parts. `FailedOwnedUntilRestart` is
`FailedOwned` before the first restart (`failed_restart` shows what a restart does) and
`UnfinishedOwned` excepts `gaveUp`, the templates for which the worker calls `Done` although it could not write Paused.
`WatchedEntriesCurrent` is about edits only: a controller may store what it read before
a deletion after the other has cleared the cache, and a policy that moves to another
namespace leaves its entry behind; both stay until the TTL, which is what
`EventuallyRight` counts on. `EventuallyRight` says nothing of namespaces that two
policies claim, where `refresh` fails and the controllers do not, or a policy outside
the operator's namespace, which only the controllers see.

### Fairness

`RetryQueue` and `WorkQueue`: weak fairness of each worker's steps (goroutines are
scheduled, `processItem` returns), of timers and of the clock. None for `Enqueue` or
`Shutdown`. `TemplateLifecycle`: weak fairness of each worker, of the informer, of
requeues, of `RequeueAfter` and of the reconciler's own steps; strong fairness of
`Reconcile(n)`, because the controller's queue is first in, first out with one
reconciliation at a time, so a key that keeps being queued is taken. No user action,
failing call or restart is fair. `PolicyCache`: weak fairness of running calls of `Get`,
of the informer, of the controllers and of `Expire`; none for new calls, resyncs and
the election. `WebhookCerts`: weak fairness of the manager, of time and of each watcher's
load and reconnection; strong fairness of `Deliver`, because a watch that is cut again
and again lives long enough, once in a while, to deliver an event. `NamespaceCleanup`:
weak fairness of the reconciler, the informers, the handlers and of Kubernetes' own
emptying of the namespace. No failing call, crash or user action is fair.

## Theorems

All proofs are hierarchical and checked by TLAPS to the last leaf.

`RetryQueueProofs`, for any sets of names, workers and pointers and any
`MaxRetries >= 1`, `MaxRetryCycles >= 0` (the clamps of `main.go`): `TypeCorrect`,
`MapSafe`, `OwnershipSafe`, `GaugeCorrect`, `RetriesBounded`. The inductive invariant
is `TypeOK /\ MapPointsIntoHeap /\ SingleOwner`: that the index points into the heap
is kept by `Dequeue` only because the pointer it takes is not one the map has under
another name, and by `Requeue` only because the pointer it pushes was owned by nobody
else. `GaugeExact` then follows with the cardinality of the busy workers, and needs
that the worker's test `CyclesExhausted` implies that `Requeue` does not give up.
`RetryBudget` is the arithmetic of `RetriesLeft`. The type invariant of this queue is part
of that of `WorkQueue`, where the run `work_queue` checks it.

`WorkQueueProofs`: `Refinement` (`Spec => ImplementsRetryQueue`), from a control
invariant that ties where a worker is to whether it holds an item; `TypeCorrect`,
with the abstract queue's invariant carried over through the refinement; and
`NoStrandedWork`: with a single priority, `Spec => []FreshNeverStranded`. Its argument:
a fresh item is due at once, so it is before every delayed item in the heap's order,
so that no worker that looks at the heap under the lock goes to wait while one is
queued; and `Enqueue` wakes a waiter. It assumes that 2^k is a number for k up to 30
and does not decrease with k (`PowerAssumption`, which TLC evaluates), as the prover
knows nothing of powers. `ShutdownWakesAll` (`Spec => []NoWaitAfterShutdown`) is inductive
with the control invariant: the mutex keeps `Shutdown` out between a worker's test of
the flag and its `Wait`. `DelaysBounded` (`Spec => BackoffBounded`) holds for all delays,
retries and cycles for which the longest product fits (`NoOverflow`): `Requeue` is the
only step that pushes what a worker held (`OnlyRequeuePushes`), and its delay is within
the bounds (`DelayBounds`).

`TemplateLifecycleSteps` has the lemmas about single steps of the system (types, writes to
objects, what is hashed), `TemplateLifecycleProofs` ownership and the theorems.

`QueueProtocol` (`Spec => UsesQueue`): the whole system uses the queue only through the
steps `RetryQueue` allows, apart from restarts that empty it. `QueueSound` carries single
ownership and the soundness of the index over to the whole system.

`TypeCorrect`, `NeverForgotten` (`Spec => []UnfinishedOwned`) and `FailedRetried`
(`Spec => []FailedOwnedUntilRestart`) rest on one inductive invariant, for any names,
workers, pointers, specs and bounds. Its first part, `Typed`, says which registers of a
worker have a value at which call (`RegInv`), the same of the reconciler (`CtrlInv`), and
the types of objects, resources and caches; with the queue's invariant (`QInv`) it gives
`TypeOK`. Its second part, `OwnerInv`, is what makes ownership inductive. `Owned` alone is
not: it counts a key that waits with the controller as an owner, but Reconcile decides by
the informer's copy and does nothing with one that is missing, Paused or Failed. So
`OwnerOK` counts a key only if that copy is unfinished (`Awaited`), and otherwise asks for
an event still to be delivered that passes the predicate, an `Enqueue` about to be made,
an item or a worker that is not about to call `Done` (`Scheduled`, `Assigned`); a Failed
template must have an item or a worker. `CacheOK` says that an object the cache lacks has its
creation still to be delivered. The proof has one lemma per kind of step: what a step
does to items and workers (`DequeueAssigned`, `DoneAssigned`, `RequeueAssigned`,
`EnqueueAssigned`), to objects (`StatusOwner`, `ChangeEffect`) and to keys
(`ReconcileOwner`, `InformerOwner`). Assumption: `NoObjAssumption`, that the sentinel
`NoObj` is neither an object nor a name. It also showed that failing calls do not matter
to Failed templates, only a restart does; the property used to except both.

`StatusRefinement` (`Spec => ImplementsStatus`) is the refinement of `TemplateStatus`, for
any names, workers, specs and bounds. Its invariant `CopyInv` adds to the types that
a copy which is still current agrees with the object: where no change of a template is
waiting to be delivered, the informer's copy is the object, and so is the copy of a
drift round as long as nobody wrote to the object since it was read (`ctrlFresh`). A write
from any other copy conflicts and changes nothing; each worker and reconciler step is then one
of the operator's steps in `TemplateStatus`. The reconciler's writes are therefore right
about the phase and hash they were decided on, although it ignores conflicts.

`HashOnlyOfRun` (`Spec => HashedIsRun`) needs `RunInv`: a worker in its loop holds in
`reg.spec` the spec whose templates it goes through, unless one of these is rejected,
since the status update for a rejected template re-fetches the object; and `specHash` is taken from there at the end. The exception is real: TLC finds
the behaviour when it is left out.

`PolicyCacheProofs`, for any policies, namespaces and readers: `TypeCorrect`, and
`EditsReachCache` (`Spec => []WatchedEntriesCurrent`). The inductive invariant adds that
a controller holds what the informer has or has the key queued again (`ReadsCurrent`),
so that whoever stores an old version will store again; that a revision is new
(`Versions`), so that an edit is never mistaken for what the informer already has; and
that without leadership no entry comes from a controller (`FollowerIdle`).

`CARotation` itself: `RotationKeepsSigner`, for any CAs and validity. `CertManagerProofs`:
`ManagerTypes`, whose invariant `ChosenInv` ties the CA a pass holds to what is stored at
each call; `ManagerImplementsRotation` from it; `ManagerKeepsSigner` by carrying the
abstract theorem over; and `ManagerLeavesNoGap` (`Spec => []TrustedUndisturbed`). The
last needs how long each CA lives relative to the certificate it signed and to the time
since the last check (`Strong`, `CAInv`, `ServerInv`): a certificate is renewed at least
a `CheckInterval` before its end, by a CA that outlives it. Assumptions: the relations
between the constants of `manager.go` (`PeriodAssumption`), that `None` and `Empty` are
not certificates (`SentinelAssumption`), and `FaultAssumption`.

The same module treats the composition with any number of watchers. To the manager, a
step of `WebhookCerts` is one of its own or the restart of another pod, which changes
nothing but the count of faults, so its invariants carry over: `WatcherTypes` and
`WatchersLeaveManagerSound` (the refinement, `SignerKept` and `TrustedUndisturbed` under
`ServeSpec`). `WatchersServeOnlyNewer` (`ServeSpec => ServesOnlyNewer`) needs `OrderInv`:
what a pod presents, each version its watch has yet to deliver and the stored secret
expire in this order, versions without a certificate apart. All pairs are compared,
because such a version between two certificates breaks the chain. The order is kept
because a new certificate has its whole life before it, because a watch that opens
starts with what is stored and one that closes loses all it had, and because time takes
the same from every certificate while no event is under way.

`WatchersCatchUp` (`ServeSpec => []PodsCaughtUp`) needs the stronger statement that the last
version a watch has yet to deliver, or else what the pod presents, is what the secret
holds (`CatchInv`): a watch opens with the stored version, so a change between two watches
or before the first is not lost. `HandshakesAccepted` (`ServeSpec =>
[]HandshakesUndisturbed`) then follows from `TrustedUndisturbed`: what a quiet pod presents
is the stored certificate, and that is trusted between two undisturbed checks.

`AdmissionProofs`, for any policies, specs and number of handlers: `VerdictsAreRight`,
from `VerdictInvariant`: a request has passed all that comes before its current check,
and every entry of the map is the pattern of its key, whatever entries are lost.
`CompliantIsApplied` and `AdmittedAreApplied`: what the webhook accepts, the worker
applies under the same policy. Assumptions: `IdleAssumption` and `ListAssumption` (specs
and field validations are lists).

The same module treats the namespace: `FinalizerNeverAddedLate`, from
`NamespaceInvariant` (a copy with the namespace's version equals it where it matters, so a decision by an old copy conflicts),
and `FinalizerWaitsForListed`, from `ListInv` (what was listed is deleted or still to be
deleted, and a KubeTemplate created anew is not one that was listed). `CleanupTypes`
(`Spec => []CleanupTypeOK`) puts `VerdictInvariant` and `NamespaceInvariant` together with
the types of counters, lists and flags; it assumes that the bounds are numbers
(`BoundAssumption`). `NamespaceNeverForgotten` (`Spec => []NamespaceTended`): a change that the
informer has not delivered queues the key when it is, an update that conflicts or fails
returns an error, and one that succeeds leaves a namespace that needs nothing or a copy
that is behind.

Every invariant, action property and refinement that a passing run checks is also
proved, `FreshNeverStranded` for a single priority, the only one the program uses. Only
model-checked: all liveness properties (the prover does not handle fairness and
`ENABLED`), and everything about the violation runs.

## Known behaviours of the code that the properties leave room for

- A patch of the webhook configuration that fails is only logged; the bundle stays old
  until the next renewal of the server certificate. `HandshakesRecover` waits for that.
- A promotion interrupted between the deletion of the old CA and the creation of the new
  one under its name is never completed, and the CA is not renewed any more
  (`PromotionLost`, the exception of `HandshakesRecover`).
- `IsReady` is true after the initial load gave up without a certificate: when the secret
  was missing for a minute, or every `Get` of it failed.
- When the CA changes, the stored certificate and the bundle are written one after the
  other and pods load the certificate later, so handshakes can fail for a moment.
  `TrustedUndisturbed` is about the time between passes.
- The webhook may end the process (`Fatal`); requests it was handling fail.
- Field validations are checked at admission only; the worker checks kind, namespace and
  the rule's CEL expression.
- The product of the backoff overflows for an `InitialRetryDelay` of 9 s or more and more
  than 30 retries in a cycle (sooner for larger delays); the delay is then negative, which
  is no delay. `BackoffBounded` is about the delays for which it fits.
- When a template is rejected, the worker goes on with the templates it began with, and
  records the hash of the spec that the status update re-fetched. An edit that Reconcile
  saw while the phase was Failed is then recorded as applied although it was not
  (the second exception of `HashedIsRun`).
- The finalizer may be removed while KubeTemplates are left that the informer had not
  seen or that were still in the webhook; Kubernetes deletes those. `docs/features.md:482`
  says it is removed after all templates are deleted, `:489` that they are always deleted
  before the namespace.
- Drift of a resource without spec and data (a Role, a ServiceAccount), and any drift of
  a namespaced one whose template leaves out the namespace, is never corrected; `USER_GUIDE.md:1125`
  says that drift is detected and corrected (`Unrepaired`).
- A drift correction removes the labels and the owner reference of the resource it
  applies. One with `referenced: true` then outlives its KubeTemplate.
- A spec that is edited before the first Reconcile after an upgrade is hashed as if it
  had been applied (`PopulateHash`); the drift correction then applies it where it can.
- An edit that Reconcile reads while the phase is Failed or Paused is left to a worker that
  may be running with the older spec. The hash then differs from that of the spec, but
  nothing calls Reconcile before the next event (outside `RecordedApplied`).

## Not modelled, and what is planned

Left out for good: log messages, events, warnings, metrics counters and timestamps
nothing reads, the TLS and flag handling of `main`, keys, serial numbers and encodings of
certificates, generated code, and the resource watcher, which never runs. `Shutdown` of
the queue is modelled although neither the program nor its tests call it. Garbage
collection through owner references appears only as deletions by somebody else; what it
would use is the mark of a resource. The heap
is a set whose head is any minimal element.

What could still be added:

1. `PolicyCache` with a clock: how old an answer can be (TTL plus the time of a
   `refresh`), as an abstract specification.
2. `PriorityHeap`: the array heap with its index field against the set `WorkQueue` uses.
3. `Drift`: field ownership per field, and what `hasDrift` makes of fields that
   controllers other than the operator set.
