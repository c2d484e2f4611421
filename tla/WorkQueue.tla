------------------------------ MODULE WorkQueue ------------------------------
(***************************************************************************)
(* internal/queue.WorkQueue with what RetryQueue leaves out: the clock and *)
(* the retry delays, the order of the heap, the mutex wq.mu, the condition *)
(* variable wq.cond, the AfterFunc timers of Dequeue, and Shutdown.        *)
(*                                                                         *)
(* Every operation runs under wq.mu and is one step, except Dequeue, which *)
(* gives the lock up in cond.Wait, and whose timer callback calls          *)
(* cond.Signal without the lock.  A worker is                              *)
(*   "loop"   about to run the body of Dequeue's for loop, for the first   *)
(*            time or after a signal (it needs wq.mu),                     *)
(*   "arm"    past time.AfterFunc and before cond.Wait, holding wq.mu,     *)
(*   "wait"   on the notify list of wq.cond,                               *)
(*   "work"   back in the worker loop with an item,                        *)
(*   "exit"   told by Dequeue that the queue is shut down.                 *)
(* sync.Cond.Signal wakes some waiter, if there is one.                    *)
(*                                                                         *)
(* The heap is the set of its pointers; its head is any pointer that no    *)
(* other is Less than.  Time advances in units of InitialRetryDelay's.     *)
(* The counters of QueueMetrics other than processingItems only ever grow, *)
(* are read by nothing but GetMetrics, and are left out.                   *)
(***************************************************************************)
EXTENDS WorkItems, FiniteSets

CONSTANTS
  Workers, Ids, NoItem,   \* as in RetryQueue
  NoTimer,                \* no AfterFunc pending
  InitialRetryDelay, MaxRetryDelay,
  DurationLimit,          \* 2^63: a time.Duration is a signed 64-bit integer
  MaxTime                 \* bound: the clock stops here

ASSUME PointerAssumption == NoItem \notin Ids /\ NoItem \notin WorkItem
ASSUME PoolAssumption == IsFiniteSet(Workers) /\ Workers # {}
ASSUME DelayAssumption ==
  /\ InitialRetryDelay \in Nat \ {0}
  /\ MaxRetryDelay \in Nat \ {0}
  /\ DurationLimit \in Nat \ {0}
  /\ MaxTime \in Nat
  /\ NoTimer \notin Nat

\* 1 << retryCount for the exponents Requeue can reach.
ASSUME PowerAssumption ==
  \A k \in 0..30 : 2^k \in Nat \ {0} /\ \A j \in 0..k : 2^j <= 2^k

VARIABLES
  items, itemsMap, item, held, processingItems,   \* as in RetryQueue
  sched,      \* ScheduledAt of each pointer in use
  pc,         \* where each worker is
  timer,      \* when the AfterFunc of each worker's Dequeue fires
  shutdown,
  now

queueVars == <<items, itemsMap, item, held, processingItems>>
vars == <<queueVars, sched, pc, timer, shutdown, now>>

\* wq.mu is free between the steps, except while a worker is about to Wait.
MutexFree == \A w \in Workers : pc[w] # "arm"

Contains(n) == itemsMap[n] # NoItem

Less(i, j) ==
  IF item[i].priority # item[j].priority
  THEN item[i].priority > item[j].priority
  ELSE sched[i] < sched[j]

\* items[0]: equal elements come in either order.
Heads == {i \in items : \A j \in items : ~Less(j, i)}

\* The wait list after one Signal, given the workers' other moves in p.
Signal(p) ==
  LET waiting == {w \in Workers : p[w] = "wait"} IN
  IF waiting = {} THEN pc' = p
  ELSE \E w \in waiting : pc' = [p EXCEPT ![w] = "loop"]

\* A product of two positive durations, which wraps around when it does not fit.
Wrapped(d) ==
  IF d < DurationLimit THEN d ELSE ((d + DurationLimit) % (2 * DurationLimit)) - DurationLimit

\* The exponent of the delay of retry c, and the product before it is capped.
Shift(c) == IF c - 1 > 30 THEN 30 ELSE c - 1
Backoff(c) == Wrapped(InitialRetryDelay * 2^Shift(c))

\* Mutant of RetryDelay: the delay of a new cycle is left at zero.
RetryDelayNoCooldown(r) ==
  IF r.retryCount = 0 THEN 0
  ELSE IF Backoff(r.retryCount) > MaxRetryDelay THEN MaxRetryDelay ELSE Backoff(r.retryCount)

\* The delay of Requeue for an item whose counters are already r's.  A product that
\* wrapped around to a negative number is not above MaxRetryDelay.
RetryDelay(r) ==
  IF r.retryCount = 0 \/ Backoff(r.retryCount) > MaxRetryDelay THEN MaxRetryDelay
  ELSE Backoff(r.retryCount)

Init ==
  /\ items = {}
  /\ itemsMap = [n \in Names |-> NoItem]
  /\ item = [i \in Ids |-> NoItem]
  /\ held = [w \in Workers |-> NoItem]
  /\ processingItems = 0
  /\ sched = [i \in Ids |-> 0]
  /\ pc = [w \in Workers |-> "loop"]
  /\ timer = [w \in Workers |-> NoTimer]
  /\ shutdown = FALSE
  /\ now = 0

\* Mutant of Enqueue: no cond.Signal after the push.
EnqueueWithoutSignal(n, p) ==
  /\ MutexFree
  /\ \/ /\ Contains(n)
        /\ item' = [item EXCEPT ![itemsMap[n]] = Raised(@, p)]
        /\ UNCHANGED <<items, itemsMap, sched>>
     \/ /\ ~Contains(n)
        /\ \E i \in Ids :
             /\ item[i] = NoItem
             /\ item' = [item EXCEPT ![i] = NewItem(n, p)]
             /\ sched' = [sched EXCEPT ![i] = now]
             /\ items' = items \cup {i}
             /\ itemsMap' = [itemsMap EXCEPT ![n] = i]
  /\ UNCHANGED <<held, processingItems, pc, timer, shutdown, now>>

\* The deduplicated Enqueue returns before cond.Signal.
Enqueue(n, p) ==
  /\ MutexFree
  /\ \/ /\ Contains(n)
        /\ item' = [item EXCEPT ![itemsMap[n]] = Raised(@, p)]
        /\ UNCHANGED <<items, itemsMap, sched, pc>>
     \/ /\ ~Contains(n)
        /\ \E i \in Ids :
             /\ item[i] = NoItem
             /\ item' = [item EXCEPT ![i] = NewItem(n, p)]
             /\ sched' = [sched EXCEPT ![i] = now]
             /\ items' = items \cup {i}
             /\ itemsMap' = [itemsMap EXCEPT ![n] = i]
        /\ Signal(pc)
  /\ UNCHANGED <<held, processingItems, timer, shutdown, now>>

-----------------------------------------------------------------------------
(* One pass of Dequeue's loop.  A worker that Wait woke stops its timer    *)
(* first; a worker that comes in has none.                                 *)

LoopTop(w) == pc[w] = "loop" /\ MutexFree

DequeueShutdown(w) ==
  /\ LoopTop(w)
  /\ shutdown
  /\ pc' = [pc EXCEPT ![w] = "exit"]
  /\ timer' = [timer EXCEPT ![w] = NoTimer]
  /\ UNCHANGED <<queueVars, sched, shutdown, now>>

DequeueEmpty(w) ==
  /\ LoopTop(w)
  /\ ~shutdown
  /\ items = {}
  /\ pc' = [pc EXCEPT ![w] = "wait"]
  /\ timer' = [timer EXCEPT ![w] = NoTimer]
  /\ UNCHANGED <<queueVars, sched, shutdown, now>>

\* The head is delayed: a timer for the rest of its delay, then Wait.
DequeueArm(w) ==
  /\ LoopTop(w)
  /\ ~shutdown
  /\ \E i \in Heads :
       /\ now < sched[i]
       /\ timer' = [timer EXCEPT ![w] = sched[i]]
  /\ pc' = [pc EXCEPT ![w] = "arm"]
  /\ UNCHANGED <<queueVars, sched, shutdown, now>>

DequeueWait(w) ==
  /\ pc[w] = "arm"
  /\ pc' = [pc EXCEPT ![w] = "wait"]
  /\ UNCHANGED <<queueVars, sched, timer, shutdown, now>>

\* Mutant of DequeueTake: delete(wq.itemsMap, ...) is missing.
DequeueTakeKeepsMapEntry(w) ==
  /\ LoopTop(w)
  /\ ~shutdown
  /\ \E i \in Heads :
       /\ now >= sched[i]
       /\ items' = items \ {i}
       /\ held' = [held EXCEPT ![w] = i]
  /\ processingItems' = processingItems + 1
  /\ pc' = [pc EXCEPT ![w] = "work"]
  /\ timer' = [timer EXCEPT ![w] = NoTimer]
  /\ UNCHANGED <<item, itemsMap, sched, shutdown, now>>

DequeueTake(w) ==
  /\ LoopTop(w)
  /\ ~shutdown
  /\ \E i \in Heads :
       /\ now >= sched[i]
       /\ items' = items \ {i}
       /\ itemsMap' = [itemsMap EXCEPT ![item[i].name] = NoItem]
       /\ held' = [held EXCEPT ![w] = i]
  /\ processingItems' = processingItems + 1
  /\ pc' = [pc EXCEPT ![w] = "work"]
  /\ timer' = [timer EXCEPT ![w] = NoTimer]
  /\ UNCHANGED <<item, sched, shutdown, now>>

\* The AfterFunc callback: a Signal that does not take wq.mu.
TimerFires(w) ==
  /\ timer[w] # NoTimer
  /\ now >= timer[w]
  /\ timer' = [timer EXCEPT ![w] = NoTimer]
  /\ Signal(pc)
  /\ UNCHANGED <<queueVars, sched, shutdown, now>>
-----------------------------------------------------------------------------
\* Done takes only the metrics' lock.
Done(w) ==
  /\ pc[w] = "work"
  /\ pc' = [pc EXCEPT ![w] = "loop"]
  /\ processingItems' = processingItems - 1
  /\ item' = [item EXCEPT ![held[w]] = NoItem]
  /\ sched' = [sched EXCEPT ![held[w]] = 0]
  /\ held' = [held EXCEPT ![w] = NoItem]
  /\ UNCHANGED <<items, itemsMap, timer, shutdown, now>>

Requeue(w) ==
  LET i == held[w] IN
  /\ pc[w] = "work"
  /\ MutexFree
  /\ held' = [held EXCEPT ![w] = NoItem]
  /\ IF GivesUp(item[i])
     THEN /\ processingItems' = processingItems - 2
          /\ item' = [item EXCEPT ![i] = NoItem]
          /\ sched' = [sched EXCEPT ![i] = 0]
          /\ pc' = [pc EXCEPT ![w] = "loop"]
          /\ UNCHANGED <<items, itemsMap>>
     ELSE /\ processingItems' = processingItems - 1
          /\ item' = [item EXCEPT ![i] = Retried(@)]
          /\ sched' = [sched EXCEPT ![i] = now + RetryDelay(Retried(item[i]))]
          /\ items' = items \cup {i}
          /\ itemsMap' = [itemsMap EXCEPT ![item[i].name] = i]
          /\ Signal([pc EXCEPT ![w] = "loop"])
  /\ UNCHANGED <<timer, shutdown, now>>

\* The worker loop's answer to an error from processItem.
Fail(w) ==
  /\ pc[w] = "work"
  /\ IF CyclesExhausted(item[held[w]]) THEN Done(w) ELSE Requeue(w)

\* Mutant of Shutdown: Signal instead of Broadcast.
ShutdownSignalsOne ==
  /\ MutexFree
  /\ ~shutdown
  /\ shutdown' = TRUE
  /\ Signal(pc)
  /\ UNCHANGED <<queueVars, sched, timer, now>>

\* Broadcast wakes every waiter.
Shutdown ==
  /\ MutexFree
  /\ ~shutdown
  /\ shutdown' = TRUE
  /\ pc' = [w \in Workers |-> IF pc[w] = "wait" THEN "loop" ELSE pc[w]]
  /\ UNCHANGED <<queueVars, sched, timer, now>>

Tick ==
  /\ now < MaxTime
  /\ now' = now + 1
  /\ UNCHANGED <<queueVars, sched, pc, timer, shutdown>>

Dequeue(w) ==
  \/ DequeueShutdown(w)
  \/ DequeueEmpty(w)
  \/ DequeueArm(w)
  \/ DequeueWait(w)
  \/ DequeueTake(w)

Next ==
  \/ \E n \in Names, p \in Priorities : Enqueue(n, p)
  \/ \E w \in Workers : Dequeue(w) \/ TimerFires(w) \/ Done(w) \/ Fail(w)
  \/ Shutdown
  \/ Tick

Spec == Init /\ [][Next]_vars

\* Goroutines are scheduled, timers fire, time passes, and processItem returns.
Fairness ==
  /\ WF_vars(Tick)
  /\ \A w \in Workers : /\ WF_vars(Dequeue(w))
                        /\ WF_vars(TimerFires(w))
                        /\ WF_vars(Done(w) \/ Fail(w))

-----------------------------------------------------------------------------
\* Type invariant of the detailed queue.
TypeOK ==
  /\ items \in SUBSET Ids
  /\ itemsMap \in [Names -> Ids \cup {NoItem}]
  /\ item \in [Ids -> WorkItem \cup {NoItem}]
  /\ held \in [Workers -> Ids \cup {NoItem}]
  /\ processingItems \in Int
  /\ sched \in [Ids -> Int]
  /\ pc \in [Workers -> {"loop", "arm", "wait", "work", "exit"}]
  /\ timer \in [Workers -> Nat \cup {NoTimer}]
  /\ shutdown \in BOOLEAN
  /\ now \in Nat

Q == INSTANCE RetryQueue

\* The locked, timed, ordered queue does nothing its clients may not rely on
\* from RetryQueue: every operation maps to one atomic operation there, and
\* waiting, waking, timers, shutdown and the clock are invisible.
ImplementsRetryQueue == Q!Spec

\* No lost wakeup for new work: while an item no attempt has touched is queued,
\* some worker is awake (in its loop or working), so the item is not left to a
\* signal that may never come.  It rests on Enqueue's Signal, on every other
\* worker re-checking the heap under wq.mu before it waits, and on the heap
\* order; it needs all priorities equal, which is how the program calls Enqueue.
FreshNeverStranded ==
  (~shutdown /\ \E i \in items : Fresh(item[i]))
    => \E w \in Workers : pc[w] \in {"loop", "work"}

\* The longest product fits into a time.Duration: up to 8 s of InitialRetryDelay that
\* is so for any number of retries, beyond that for up to 30 of them or fewer.
NoOverflow == InitialRetryDelay * 2^Shift(MaxRetries) < DurationLimit

\* As long as the product fits, every retry waits at least InitialRetryDelay (or
\* MaxRetryDelay, if that is less) and at most MaxRetryDelay, in every cycle and
\* through every reset of the counter (Requeue's shift, cap and cooldown).
BackoffBounded ==
  [][\A w \in Workers : NoOverflow /\ held[w] # NoItem /\ held[w] \in items' =>
       LET delay == sched'[held[w]] - now IN
       /\ delay >= InitialRetryDelay \/ delay >= MaxRetryDelay
       /\ delay <= MaxRetryDelay]_vars

\* Once the queue is shut down, no worker waits or is about to: the Broadcast wakes
\* those that wait, and wq.mu keeps Shutdown out between a worker's test of the flag
\* and its Wait (Shutdown, Dequeue).
NoWaitAfterShutdown == shutdown => \A w \in Workers : pc[w] \notin {"arm", "wait"}

\* New work is eventually handed to a worker, unless the queue is shut down.
FreshEventuallyTaken ==
  \A i \in Ids : (i \in items /\ Fresh(item[i])) ~> (i \notin items \/ shutdown)

\* After Shutdown every worker leaves Dequeue for good: the Broadcast reaches
\* those that wait, the flag those that come back or were about to wait.
ShutdownStopsWorkers == shutdown ~> \A w \in Workers : pc[w] = "exit"

\* work_queue.go:190 "Wait with timeout": Dequeue wakes when the delay of the
\* retry it waits for is over, so a retry that is due is eventually taken.
DueRetryTaken ==
  \A i \in Ids : (i \in items /\ now >= sched[i]) ~> (i \notin items \/ shutdown)
=============================================================================
