------------------------------ MODULE WorkItems ------------------------------
(***************************************************************************)
(* The work item of internal/queue/work_queue.go and what the queue's      *)
(* operations do to one item: creation by Enqueue, the priority raise of a *)
(* deduplicated Enqueue, and the retry bookkeeping of Requeue.  The queue  *)
(* modules (RetryQueue, WorkQueue) and the modules composed with them      *)
(* share these definitions.                                                *)
(*                                                                         *)
(* EnqueuedAt is never read by the program and is left out; ScheduledAt    *)
(* lives in WorkQueue, the module that has a clock.                        *)
(***************************************************************************)
EXTENDS Integers

CONSTANTS
  Names,           \* the NamespacedNames of KubeTemplates
  Priorities,      \* the priorities callers pass to Enqueue (the program: {0})
  MaxRetries,      \* WorkQueue.MaxRetries
  MaxRetryCycles   \* WorkQueue.MaxRetryCycles, 0 = unlimited

\* main.go clamps MAX_RETRIES to at least 1 and MAX_RETRY_CYCLES to at least 0.
ASSUME RetryAssumption == MaxRetries \in Nat \ {0} /\ MaxRetryCycles \in Nat

ASSUME PriorityAssumption == Priorities \subseteq Int

\* RetryCycle counts without limit when MaxRetryCycles = 0.  The code only ever
\* compares it with MaxRetryCycles, so it saturates one above that bound.
CycleBound == MaxRetryCycles + 1

WorkItem == [name: Names, priority: Priorities,
             retryCount: 0..MaxRetries, retryCycle: 0..CycleBound]

NewItem(n, p) ==
  [name |-> n, priority |-> p, retryCount |-> 0, retryCycle |-> 0]

\* A second Enqueue of a queued name only ever raises the priority.
Raised(r, p) == IF p > r.priority THEN [r EXCEPT !.priority = p] ELSE r

\* An item that no failed attempt has touched yet.
Fresh(r) == r.retryCount = 0 /\ r.retryCycle = 0

NextCycle(c) == IF c >= CycleBound THEN CycleBound ELSE c + 1

\* Requeue's "maximum retry cycles exceeded" exit: the item is not pushed back.
GivesUp(r) ==
  /\ r.retryCount + 1 > MaxRetries
  /\ MaxRetryCycles > 0
  /\ r.retryCycle >= MaxRetryCycles

\* Mutants of Retried: the counter is not reset; no new cycle is counted; the
\* failed attempt is not counted.
RetriedWithoutReset(r) == [r EXCEPT !.retryCount = @ + 1]
RetriedSameCycle(r) ==
  [r EXCEPT !.retryCount = IF @ + 1 > MaxRetries THEN 0 ELSE @ + 1]
RetriedUncounted(r) == r

\* The counters Requeue leaves on an item it does push back.
Retried(r) ==
  IF r.retryCount + 1 > MaxRetries
  THEN [name |-> r.name, priority |-> r.priority,
        retryCount |-> 0, retryCycle |-> NextCycle(r.retryCycle)]
  ELSE [r EXCEPT !.retryCount = @ + 1]

\* Mutant of CyclesExhausted: off by one.
CyclesExceeded(r) == MaxRetryCycles > 0 /\ r.retryCycle > MaxRetryCycles

\* The worker's own test, made before it would call Requeue.
CyclesExhausted(r) == MaxRetryCycles > 0 /\ r.retryCycle >= MaxRetryCycles

\* What an item has left before the worker pauses its template.  Every failed
\* attempt that is retried must decrease it when MaxRetryCycles > 0.
RetriesLeft(r) ==
  (MaxRetryCycles - r.retryCycle) * (MaxRetries + 1) - r.retryCount
=============================================================================
